---- MODULE Spec2Model ----
(***************************************************************************)
(* DNS wire-format codec (header, questions, answer records, messages) and *)
(* the UDP server loop of dns-server-rust.                                 *)
(*                                                                         *)
(* Bytes are naturals 0..255, byte slices are sequences (1-indexed: the    *)
(* Rust index i is the TLA+ index i+1).  A Result is a record with a field *)
(* ok; an Ok result carries the value in val.                              *)
(***************************************************************************)
EXTENDS Integers, Sequences, FiniteSets, TLC

\* ------------------------------------------------------------------------
\* Program constants
\* ------------------------------------------------------------------------
PacketLen == 512
HeaderLen == 12

\* ------------------------------------------------------------------------
\* Generic helpers: Result, Option, slices, fixed-width integers
\* ------------------------------------------------------------------------
Err == [ok |-> FALSE]
Ok(v) == [ok |-> TRUE, val |-> v]

\* `let v = value; F(v)`: the value is computed once, then bound
Let(value, F(_)) == CHOOSE r \in { F(v) : v \in { value } } : TRUE

\* Option<usize>::None of current_label_length
None == -1

\* packet.get(i) is Some  (i is the 0-based Rust index)
HasByte(s, i) == i >= 0 /\ i < Len(s)
\* packet[i]  (0-based Rust index)
At(s, i) == s[i + 1]
\* &s[from..]  (0-based, from <= len)
SliceFrom(s, from) == SubSeq(s, from + 1, Len(s))
\* &s[from..to]  (0-based, half open)
Slice(s, from, to) == SubSeq(s, from + 1, to)

Pow2(n) == 2 ^ n
\* (b >> lo) & (2^width - 1)
Bits(b, lo, width) == (b \div Pow2(lo)) % Pow2(width)
\* bitwise OR of two u8 values
BitOr8(a, b) ==
    LET bit(i) == IF Bits(a, i, 1) = 1 \/ Bits(b, i, 1) = 1 THEN Pow2(i) ELSE 0
    IN  bit(0) + bit(1) + bit(2) + bit(3) + bit(4) + bit(5) + bit(6) + bit(7)
\* (v << n) on a u8: the bits shifted out are lost
Shl8(v, n) == (v * Pow2(n)) % 256
BoolAsU8(b) == IF b THEN 1 ELSE 0

\* u16::from_be_bytes / u16::to_be_bytes / u32 variants
U16FromBe(hi, lo) == hi * 256 + lo
U16ToBe(v) == << (v \div 256) % 256, v % 256 >>
\* A u32 is kept as its two 16-bit halves, value = hi * 65536 + lo (the
\* checker's integers are 32-bit signed and cannot hold every u32).
U32(hi, lo) == [hi |-> hi, lo |-> lo]
U32FromBe(b0, b1, b2, b3) == U32(b0 * 256 + b1, b2 * 256 + b3)
U32ToBe(v) == U16ToBe(v.hi) \o U16ToBe(v.lo)
\* `x as u16`
AsU16(v) == v % 65536

\* ------------------------------------------------------------------------
\* header.rs
\* ------------------------------------------------------------------------
\* impl From<u8> for QRIndicator
QRIndicatorFrom(byte) == IF byte = 0 THEN "Question" ELSE "Reply"
\* QRIndicator as u8
QRIndicatorAsU8(qr) == IF qr = "Question" THEN 0 ELSE 1

\* ResponseCode::from with ServerFailure as the catch-all arm
ResponseCodeFromCatchAllServerFailure(byte) ==
    CASE byte = 0 -> "NoError"
      [] byte = 1 -> "FormatError"
      [] byte = 3 -> "NameError"
      [] byte = 4 -> "NotImplemented"
      [] byte = 5 -> "Refused"
      [] OTHER    -> "ServerFailure"

\* impl From<u8> for ResponseCode
ResponseCodeFrom(byte) ==
    CASE byte = 0 -> "NoError"
      [] byte = 2 -> "ServerFailure"
      [] byte = 3 -> "NameError"
      [] byte = 4 -> "NotImplemented"
      [] byte = 5 -> "Refused"
      [] OTHER    -> "FormatError"
\* ResponseCode as u8
ResponseCodeAsU8(rc) ==
    CASE rc = "NoError"        -> 0
      [] rc = "FormatError"    -> 1
      [] rc = "ServerFailure"  -> 2
      [] rc = "NameError"      -> 3
      [] rc = "NotImplemented" -> 4
      [] rc = "Refused"        -> 5

\* From<&[u8; 12]> with the reserved mask 0b11110000, which keeps the RA bit
DnsHeaderFromWideReserved(buf) ==
    [ packet_identifier        |-> U16FromBe(At(buf, 0), At(buf, 1)),
      query_response_indicator |-> QRIndicatorFrom(Bits(At(buf, 2), 7, 1) * 128),
      operation_code           |-> Bits(At(buf, 2), 3, 4),
      authoritative_answer     |-> Bits(At(buf, 2), 2, 1) # 0,
      truncation               |-> Bits(At(buf, 2), 1, 1) # 0,
      recursion_desired        |-> Bits(At(buf, 2), 0, 1) # 0,
      recursion_available      |-> Bits(At(buf, 3), 7, 1) # 0,
      reserved                 |-> Bits(At(buf, 3), 4, 4),
      response_code            |-> ResponseCodeFrom(Bits(At(buf, 3), 0, 4)),
      question_count           |-> U16FromBe(At(buf, 4), At(buf, 5)),
      answer_record_count      |-> U16FromBe(At(buf, 6), At(buf, 7)),
      authority_record_count   |-> U16FromBe(At(buf, 8), At(buf, 9)),
      additional_record_count  |-> U16FromBe(At(buf, 10), At(buf, 11)) ]

\* From<&[u8; 12]> with the opcode mask 0b11111000, which keeps the QR bit
DnsHeaderFromWideOpcode(buf) ==
    [ packet_identifier        |-> U16FromBe(At(buf, 0), At(buf, 1)),
      query_response_indicator |-> QRIndicatorFrom(Bits(At(buf, 2), 7, 1) * 128),
      operation_code           |-> Bits(At(buf, 2), 3, 5),
      authoritative_answer     |-> Bits(At(buf, 2), 2, 1) # 0,
      truncation               |-> Bits(At(buf, 2), 1, 1) # 0,
      recursion_desired        |-> Bits(At(buf, 2), 0, 1) # 0,
      recursion_available      |-> Bits(At(buf, 3), 7, 1) # 0,
      reserved                 |-> Bits(At(buf, 3), 4, 3),
      response_code            |-> ResponseCodeFrom(Bits(At(buf, 3), 0, 4)),
      question_count           |-> U16FromBe(At(buf, 4), At(buf, 5)),
      answer_record_count      |-> U16FromBe(At(buf, 6), At(buf, 7)),
      authority_record_count   |-> U16FromBe(At(buf, 8), At(buf, 9)),
      additional_record_count  |-> U16FromBe(At(buf, 10), At(buf, 11)) ]

\* impl From<&[u8; 12]> for DnsHeader
DnsHeaderFrom(buf) ==
    [ packet_identifier        |-> U16FromBe(At(buf, 0), At(buf, 1)),
      query_response_indicator |-> QRIndicatorFrom(Bits(At(buf, 2), 7, 1) * 128),
      operation_code           |-> Bits(At(buf, 2), 3, 4),
      authoritative_answer     |-> Bits(At(buf, 2), 2, 1) # 0,
      truncation               |-> Bits(At(buf, 2), 1, 1) # 0,
      recursion_desired        |-> Bits(At(buf, 2), 0, 1) # 0,
      recursion_available      |-> Bits(At(buf, 3), 7, 1) # 0,
      reserved                 |-> Bits(At(buf, 3), 4, 3),
      response_code            |-> ResponseCodeFrom(Bits(At(buf, 3), 0, 4)),
      question_count           |-> U16FromBe(At(buf, 4), At(buf, 5)),
      answer_record_count      |-> U16FromBe(At(buf, 6), At(buf, 7)),
      authority_record_count   |-> U16FromBe(At(buf, 8), At(buf, 9)),
      additional_record_count  |-> U16FromBe(At(buf, 10), At(buf, 11)) ]

\* DnsHeader::new
DnsHeaderNew(packet_slice) ==
    IF Len(packet_slice) >= HeaderLen
    THEN Let(Slice(packet_slice, 0, HeaderLen),
             LAMBDA fixed_array : Ok(DnsHeaderFrom(fixed_array)))
    ELSE Err

\* get_flags_bytes that leaves the reserved bits clear
get_flags_bytes_without_reserved(h) ==
    LET flags_first_byte ==
            BitOr8(BitOr8(BitOr8(BitOr8(
                Shl8(QRIndicatorAsU8(h.query_response_indicator), 7),
                Shl8(h.operation_code, 3)),
                Shl8(BoolAsU8(h.authoritative_answer), 2)),
                Shl8(BoolAsU8(h.truncation), 1)),
                BoolAsU8(h.recursion_desired))
        flags_second_byte ==
            BitOr8(Shl8(BoolAsU8(h.recursion_available), 7),
                   ResponseCodeAsU8(h.response_code))
    IN  << flags_first_byte, flags_second_byte >>

\* DnsHeader::get_flags_bytes
get_flags_bytes(h) ==
    LET flags_first_byte ==
            BitOr8(BitOr8(BitOr8(BitOr8(
                Shl8(QRIndicatorAsU8(h.query_response_indicator), 7),
                Shl8(h.operation_code, 3)),
                Shl8(BoolAsU8(h.authoritative_answer), 2)),
                Shl8(BoolAsU8(h.truncation), 1)),
                BoolAsU8(h.recursion_desired))
        flags_second_byte ==
            BitOr8(BitOr8(
                Shl8(BoolAsU8(h.recursion_available), 7),
                Shl8(h.reserved, 4)),
                ResponseCodeAsU8(h.response_code))
    IN  << flags_first_byte, flags_second_byte >>

\* to_bytes with the authority and additional counts in each other's place
DnsHeaderToBytesSwappedCounts(h) ==
    U16ToBe(h.packet_identifier) \o get_flags_bytes(h)
        \o U16ToBe(h.question_count) \o U16ToBe(h.answer_record_count)
        \o U16ToBe(h.additional_record_count) \o U16ToBe(h.authority_record_count)

\* impl From<&DnsHeader> for [u8; 12]  (DnsHeader::to_bytes)
DnsHeaderToBytes(h) ==
    U16ToBe(h.packet_identifier) \o get_flags_bytes(h)
        \o U16ToBe(h.question_count) \o U16ToBe(h.answer_record_count)
        \o U16ToBe(h.authority_record_count) \o U16ToBe(h.additional_record_count)

\* ------------------------------------------------------------------------
\* record_type.rs, class.rs
\* ------------------------------------------------------------------------
\* enum RecordType, discriminants 1..16
RecordTypeVariants ==
    << "A", "NS", "MD", "MF", "CNAME", "SOA", "MB", "MG", "MR", "NULL",
       "WKS", "PTR", "HINFO", "MINFO", "MX", "TXT" >>
\* TryFrom<u16> for RecordType without the arm 16 => Ok(RecordType::TXT)
RecordTypeTryFromWithoutTxt(value) ==
    IF value >= 1 /\ value <= 15 THEN Ok(RecordTypeVariants[value]) ELSE Err

\* impl TryFrom<u16> for RecordType
RecordTypeTryFrom(value) ==
    IF value >= 1 /\ value <= 16 THEN Ok(RecordTypeVariants[value]) ELSE Err
\* RecordType as u16: the discriminants of the enum declaration
RecordTypeAsU16(t) ==
    CASE t = "A"     -> 1   [] t = "NS"    -> 2   [] t = "MD"    -> 3
      [] t = "MF"    -> 4   [] t = "CNAME" -> 5   [] t = "SOA"   -> 6
      [] t = "MB"    -> 7   [] t = "MG"    -> 8   [] t = "MR"    -> 9
      [] t = "NULL"  -> 10  [] t = "WKS"   -> 11  [] t = "PTR"   -> 12
      [] t = "HINFO" -> 13  [] t = "MINFO" -> 14  [] t = "MX"    -> 15
      [] t = "TXT"   -> 16
\* RecordType::new
RecordTypeNew(packet, domain_name_len) ==
    IF HasByte(packet, domain_name_len) /\ HasByte(packet, domain_name_len + 1)
    THEN RecordTypeTryFrom(U16FromBe(At(packet, domain_name_len),
                                     At(packet, domain_name_len + 1)))
    ELSE Err

\* enum Class, discriminants 1..4
ClassVariants == << "IN", "CS", "CH", "HS" >>
\* impl TryFrom<u16> for Class
ClassTryFrom(value) ==
    IF value >= 1 /\ value <= 4 THEN Ok(ClassVariants[value]) ELSE Err
\* Class as u16: the discriminants of the enum declaration
ClassAsU16(c) ==
    CASE c = "IN" -> 1 [] c = "CS" -> 2 [] c = "CH" -> 3 [] c = "HS" -> 4
\* Class::new
ClassNew(packet, domain_name_len) ==
    IF HasByte(packet, domain_name_len + 2) /\ HasByte(packet, domain_name_len + 3)
    THEN ClassTryFrom(U16FromBe(At(packet, domain_name_len + 2),
                                At(packet, domain_name_len + 3)))
    ELSE Err

\* ------------------------------------------------------------------------
\* domain_name.rs
\* ------------------------------------------------------------------------
\* char::from(byte) pushed on a String: the String grows by the UTF-8 length
\* of U+0000..U+00FF, and String::len() counts those bytes.
Utf8Len(byte) == IF byte < 128 THEN 1 ELSE 2

\* String::len() of the label made of the k bytes that follow the length
\* byte at 0-based index i: current_label.len() after k pushes.
LabelLenAfter(packet, i, k) ==
    k + Cardinality({ j \in 1..k : Utf8Len(At(packet, i + j)) = 2 })

\* The `for byte in packet.iter()` loop of DomainName::new, entered at the
\* 0-based index st.i with current_label_length = None.  One step here is
\* the loop's run over one label: the length byte n (None arm), then the
\* pushes of the Some(n) arm up to the first k with current_label.len() = n;
\* when no such k exists the loop runs off the end of the packet with
\* current_label_length still Some(n).  A label (a String) is the sequence
\* of its chars, each the code point of one input byte.
\* Yields the loop's final (wire_format, label_segments, current_label_length).
RECURSIVE DomainNameLoop(_, _)
DomainNameLoop(packet, st) ==
    IF st.i >= Len(packet)
    THEN [wire_format |-> st.wire_format, label_segments |-> st.label_segments,
          current_label_length |-> None]
    ELSE Let(At(packet, st.i), LAMBDA byte :
         IF byte = 0
         THEN [wire_format |-> Append(st.wire_format, byte),
               label_segments |-> st.label_segments,
               current_label_length |-> None]
         ELSE Let(byte, LAMBDA n :
              Let(Len(packet) - (st.i + 1), LAMBDA avail :
              Let(IF n < avail THEN n ELSE avail, LAMBDA most :
              Let({ k \in ((n + 1) \div 2)..most :
                      LabelLenAfter(packet, st.i, k) = n }, LAMBDA ends :
                  IF ends = {}
                  THEN [wire_format |-> st.wire_format \o SliceFrom(packet, st.i),
                        label_segments |-> st.label_segments,
                        current_label_length |-> n]
                  ELSE Let(CHOOSE e \in ends : TRUE, LAMBDA k :
                       Let([i |-> st.i + 1 + k,
                            wire_format |->
                                st.wire_format \o Slice(packet, st.i, st.i + 1 + k),
                            label_segments |->
                                Append(st.label_segments,
                                       Slice(packet, st.i + 1, st.i + 1 + k))],
                           LAMBDA next : DomainNameLoop(packet, next))))))))

\* DomainName::new
DomainNameNew(packet) ==
    IF Len(packet) = 0
    THEN Err
    ELSE Let(DomainNameLoop(packet, [i |-> 0, wire_format |-> << >>,
                                     label_segments |-> << >>]),
             LAMBDA end :
                 IF end.current_label_length = None
                    /\ Len(end.wire_format) > 0
                    /\ end.wire_format[Len(end.wire_format)] = 0
                 THEN Ok([wire_format    |-> end.wire_format,
                          label_segments |-> end.label_segments])
                 ELSE Err)

\* ------------------------------------------------------------------------
\* question.rs
\* ------------------------------------------------------------------------
\* DnsQuestion::new.  The DomainName held by a DnsQuestion is
\* crate::dns::DomainName (dns/mod.rs re-exports domain_name::DomainName, and
\* dns_message.rs builds DnsQuestion values from it).
DnsQuestionNew(packet) ==
    Let(DomainNameNew(packet), LAMBDA name :
        IF ~name.ok
        THEN Err
        ELSE Let(Len(name.val.wire_format), LAMBDA domain_name_len :
             Let(RecordTypeNew(packet, domain_name_len), LAMBDA record_type :
             Let(ClassNew(packet, domain_name_len), LAMBDA class :
                 IF record_type.ok /\ class.ok
                 THEN Ok([domain_name |-> name.val,
                          record_type |-> record_type.val,
                          class       |-> class.val])
                 ELSE Err))))

\* The `for byte in packet.iter()` loop of the DomainName::new that
\* question.rs itself defines, entered at the 0-based index st.i with
\* current_label_length = None.  It differs from the loop of domain_name.rs
\* in one place: wire_format.push(*byte) is inside the None arm, so only the
\* length bytes and the terminator are pushed, never a label's bytes.
RECURSIVE QuestionRsDomainNameLoop(_, _)
QuestionRsDomainNameLoop(packet, st) ==
    IF st.i >= Len(packet)
    THEN [wire_format |-> st.wire_format, label_segments |-> st.label_segments,
          current_label_length |-> None]
    ELSE Let(At(packet, st.i), LAMBDA byte :
         IF byte = 0
         THEN [wire_format |-> Append(st.wire_format, byte),
               label_segments |-> st.label_segments,
               current_label_length |-> None]
         ELSE Let(byte, LAMBDA n :
              Let(Len(packet) - (st.i + 1), LAMBDA avail :
              Let(IF n < avail THEN n ELSE avail, LAMBDA most :
              Let({ k \in ((n + 1) \div 2)..most :
                      LabelLenAfter(packet, st.i, k) = n }, LAMBDA ends :
                  IF ends = {}
                  THEN [wire_format |-> Append(st.wire_format, byte),
                        label_segments |-> st.label_segments,
                        current_label_length |-> n]
                  ELSE Let(CHOOSE e \in ends : TRUE, LAMBDA k :
                       Let([i |-> st.i + 1 + k,
                            wire_format |-> Append(st.wire_format, byte),
                            label_segments |->
                                Append(st.label_segments,
                                       Slice(packet, st.i + 1, st.i + 1 + k))],
                           LAMBDA next :
                               QuestionRsDomainNameLoop(packet, next))))))))

\* DomainName::new as question.rs defines it
QuestionRsDomainNameNew(packet) ==
    IF Len(packet) = 0
    THEN Err
    ELSE Let(QuestionRsDomainNameLoop(packet, [i |-> 0, wire_format |-> << >>,
                                               label_segments |-> << >>]),
             LAMBDA end :
                 IF end.current_label_length = None
                    /\ Len(end.wire_format) > 0
                    /\ end.wire_format[Len(end.wire_format)] = 0
                 THEN Ok([wire_format    |-> end.wire_format,
                          label_segments |-> end.label_segments])
                 ELSE Err)

\* DnsQuestion::new as question.rs compiles it: DomainName there is the
\* struct of question.rs, and domain_name_len the length of its wire_format.
\* RecordType::new and Class::new of question.rs have the bodies of those of
\* record_type.rs and class.rs.
QuestionRsDnsQuestionNew(packet) ==
    Let(QuestionRsDomainNameNew(packet), LAMBDA name :
        IF ~name.ok
        THEN Err
        ELSE Let(Len(name.val.wire_format), LAMBDA domain_name_len :
             Let(RecordTypeNew(packet, domain_name_len), LAMBDA record_type :
             Let(ClassNew(packet, domain_name_len), LAMBDA class :
                 IF record_type.ok /\ class.ok
                 THEN Ok([domain_name |-> name.val,
                          record_type |-> record_type.val,
                          class       |-> class.val])
                 ELSE Err))))

\* DnsQuestion::to_bytes: domain-name bytes ++ type (2B) ++ class (2B)
DnsQuestionToBytes(q) ==
    q.domain_name.wire_format \o U16ToBe(RecordTypeAsU16(q.record_type))
        \o U16ToBe(ClassAsU16(q.class))

\* DnsQuestion::parse_all_questions: decode exactly `count` questions, each
\* from where the previous one ended; the first failure fails the batch.
RECURSIVE parse_all_questions(_, _)
parse_all_questions(packet_slice, count) ==
    IF count = 0
    THEN Ok([list |-> << >>, rest |-> packet_slice])
    ELSE Let(DnsQuestionNew(packet_slice), LAMBDA first :
         IF ~first.ok
         THEN Err
         ELSE Let(SliceFrom(packet_slice,
                            Len(first.val.domain_name.wire_format) + 4),
                  LAMBDA remainder :
              Let(count - 1, LAMBDA left :
              Let(parse_all_questions(remainder, left), LAMBDA tail :
                  IF ~tail.ok
                  THEN Err
                  ELSE Ok([list |-> << first.val >> \o tail.val.list,
                           rest |-> tail.val.rest])))))

\* ------------------------------------------------------------------------
\* answer_record.rs
\* ------------------------------------------------------------------------
\* The `for idx in 2..r_data_length + 2` loop of RData::new: the bytes pushed
\* before packet_slice.get(idx) is None or the range ends.
RDataCollected(packet_slice, r_data_length) ==
    Let(IF r_data_length + 2 <= Len(packet_slice)
        THEN r_data_length + 2 ELSE Len(packet_slice),
        LAMBDA last : Slice(packet_slice, 2, last))

\* RData::new without the final comparison of the collected length with
\* r_data_length: a payload cut short by the end of the slice is returned
RDataNewUnchecked(packet_slice) ==
    IF Len(packet_slice) < 3
    THEN Err
    ELSE Ok(RDataCollected(packet_slice,
                           U16FromBe(At(packet_slice, 0), At(packet_slice, 1))))

\* RData::new
RDataNew(packet_slice) ==
    IF Len(packet_slice) < 3
    THEN Err
    ELSE Let(U16FromBe(At(packet_slice, 0), At(packet_slice, 1)),
             LAMBDA r_data_length :
         Let(RDataCollected(packet_slice, r_data_length), LAMBDA wire_format :
             IF Len(wire_format) = r_data_length THEN Ok(wire_format) ELSE Err))

\* DnsAnswerRecord::get_ttl_from_packet
get_ttl_from_packet(packet_slice, domain_name_len) ==
    Let(domain_name_len + 4, LAMBDA ttl_start_index :
    Let(ttl_start_index + 4, LAMBDA ttl_end_index :
        IF ttl_end_index > Len(packet_slice)
        THEN Err
        ELSE Ok(U32FromBe(At(packet_slice, ttl_start_index),
                          At(packet_slice, ttl_start_index + 1),
                          At(packet_slice, ttl_start_index + 2),
                          At(packet_slice, ttl_start_index + 3)))))

\* DnsAnswerRecord::get_r_data_from_packet
get_r_data_from_packet(packet_slice, domain_name_len) ==
    Let(domain_name_len + 8, LAMBDA r_data_start_index :
        IF r_data_start_index > Len(packet_slice)
        THEN Err
        ELSE Let(SliceFrom(packet_slice, r_data_start_index),
                 LAMBDA bytes : RDataNew(bytes)))

\* DnsAnswerRecord::new with r_data_length set to the number of bytes left
\* after the RDLENGTH field, not to the length of the payload read
DnsAnswerRecordNewBytesLeft(packet_slice) ==
    LET domain_name == DomainNameNew(packet_slice)
    IN  IF ~domain_name.ok THEN Err ELSE
        LET domain_name_len == Len(domain_name.val.wire_format)
            record_type == RecordTypeNew(packet_slice, domain_name_len)
            class == ClassNew(packet_slice, domain_name_len)
            time_to_live == get_ttl_from_packet(packet_slice, domain_name_len)
            r_data == get_r_data_from_packet(packet_slice, domain_name_len)
        IN  IF ~record_type.ok \/ ~class.ok \/ ~time_to_live.ok \/ ~r_data.ok
            THEN Err
            ELSE Ok([domain_name   |-> domain_name.val,
                     record_type   |-> record_type.val,
                     class         |-> class.val,
                     time_to_live  |-> time_to_live.val,
                     r_data_length |-> Len(packet_slice) - (domain_name_len + 10),
                     r_data        |-> r_data.val])

\* DnsAnswerRecord::new
DnsAnswerRecordNew(packet_slice) ==
    Let(DomainNameNew(packet_slice), LAMBDA domain_name :
        IF ~domain_name.ok THEN Err ELSE
    Let(Len(domain_name.val.wire_format), LAMBDA domain_name_len :
    Let(RecordTypeNew(packet_slice, domain_name_len), LAMBDA record_type :
        IF ~record_type.ok THEN Err ELSE
    Let(ClassNew(packet_slice, domain_name_len), LAMBDA class :
        IF ~class.ok THEN Err ELSE
    Let(get_ttl_from_packet(packet_slice, domain_name_len), LAMBDA time_to_live :
        IF ~time_to_live.ok THEN Err ELSE
    Let(get_r_data_from_packet(packet_slice, domain_name_len), LAMBDA r_data :
        IF ~r_data.ok THEN Err ELSE
        Ok([domain_name   |-> domain_name.val,
            record_type   |-> record_type.val,
            class         |-> class.val,
            time_to_live  |-> time_to_live.val,
            r_data_length |-> Len(r_data.val),
            r_data        |-> r_data.val])))))))

\* DnsAnswerRecord::to_bytes
DnsAnswerRecordToBytes(a) ==
    a.domain_name.wire_format
        \o U16ToBe(RecordTypeAsU16(a.record_type))
        \o U16ToBe(ClassAsU16(a.class))
        \o U32ToBe(a.time_to_live)
        \o U16ToBe(AsU16(a.r_data_length))
        \o a.r_data

\* DnsAnswerRecord::parse_all_answers: decode exactly `count` records, each
\* from where the previous one ended; the first failure fails the batch.
RECURSIVE parse_all_answers(_, _)
parse_all_answers(packet_slice, count) ==
    IF count = 0
    THEN Ok([list |-> << >>, rest |-> packet_slice])
    ELSE Let(DnsAnswerRecordNew(packet_slice), LAMBDA first :
         IF ~first.ok
         THEN Err
         ELSE Let(SliceFrom(packet_slice,
                            Len(first.val.domain_name.wire_format) + 10
                                + Len(first.val.r_data)),
                  LAMBDA remainder :
              Let(count - 1, LAMBDA left :
              Let(parse_all_answers(remainder, left), LAMBDA tail :
                  IF ~tail.ok
                  THEN Err
                  ELSE Ok([list |-> << first.val >> \o tail.val.list,
                           rest |-> tail.val.rest])))))

\* ------------------------------------------------------------------------
\* dns_message.rs
\* ------------------------------------------------------------------------
\* DnsMessage::new with the answers read from the slice the questions were
\* read from, not from the remainder after the questions
DnsMessageNewSameSlice(packet) ==
    LET header == DnsHeaderNew(packet)
    IN  IF ~header.ok THEN Err ELSE
        LET parsed_questions ==
                parse_all_questions(SliceFrom(packet, HeaderLen),
                                    header.val.question_count)
        IN  IF ~parsed_questions.ok THEN Err ELSE
        LET parsed_answers ==
                parse_all_answers(SliceFrom(packet, HeaderLen),
                                  header.val.answer_record_count)
        IN  IF ~parsed_answers.ok THEN Err ELSE
        Ok([header    |-> header.val,
            questions |-> parsed_questions.val.list,
            answers   |-> parsed_answers.val.list])

\* DnsMessage::new with a failed answer section dropped instead of
\* propagated (`.unwrap_or_default()` in place of `?`)
DnsMessageNewLenient(packet) ==
    LET header == DnsHeaderNew(packet)
    IN  IF ~header.ok THEN Err ELSE
        LET parsed_questions ==
                parse_all_questions(SliceFrom(packet, HeaderLen),
                                    header.val.question_count)
        IN  IF ~parsed_questions.ok THEN Err ELSE
        LET parsed_answers ==
                parse_all_answers(parsed_questions.val.rest,
                                  header.val.answer_record_count)
        IN  Ok([header    |-> header.val,
                questions |-> parsed_questions.val.list,
                answers   |-> IF parsed_answers.ok
                              THEN parsed_answers.val.list ELSE << >>])

\* DnsMessage::new
DnsMessageNew(packet) ==
    Let(DnsHeaderNew(packet), LAMBDA header :
        IF ~header.ok THEN Err ELSE
    Let(SliceFrom(packet, HeaderLen), LAMBDA questions_slice :
    Let(parse_all_questions(questions_slice, header.val.question_count),
        LAMBDA parsed_questions :
        IF ~parsed_questions.ok THEN Err ELSE
    Let(parse_all_answers(parsed_questions.val.rest,
                          header.val.answer_record_count),
        LAMBDA parsed_answers :
        IF ~parsed_answers.ok THEN Err ELSE
        Ok([header    |-> header.val,
            questions |-> parsed_questions.val.list,
            answers   |-> parsed_answers.val.list])))))

\* The literal record of DnsMessage::build_reply's answers vec
SyntheticAnswer ==
    [ domain_name   |->
          [ wire_format    |-> << 12, 99, 111, 100, 101, 99, 114, 97, 102, 116,
                                  101, 114, 115, 2, 105, 111, 0 >>,
            label_segments |-> << << 99, 111, 100, 101, 99, 114, 97, 102, 116,
                                     101, 114, 115 >>,
                                  << 105, 111 >> >> ],
      record_type   |-> "A",
      class         |-> "IN",
      time_to_live  |-> U32(0, 60),
      r_data_length |-> 4,
      r_data        |-> << 8, 8, 8, 8 >> ]

\* DnsMessage::build_reply with the response code NoError for every opcode
build_reply_no_error(self) ==
    [ header |->
          [ packet_identifier        |-> self.header.packet_identifier,
            query_response_indicator |-> "Reply",
            operation_code           |-> self.header.operation_code,
            authoritative_answer     |-> FALSE,
            truncation               |-> FALSE,
            recursion_desired        |-> self.header.recursion_desired,
            recursion_available      |-> FALSE,
            reserved                 |-> 0,
            response_code            |-> "NoError",
            question_count           |-> Len(self.questions),
            answer_record_count      |-> 1,
            authority_record_count   |-> 0,
            additional_record_count  |-> 0 ],
      questions |-> self.questions,
      answers   |-> << SyntheticAnswer >> ]

\* DnsMessage::build_reply with the synthetic record appended to the
\* inbound answers (`self.answers.clone()` then push) instead of replacing them
build_reply_keep_answers(self) ==
    [ header |->
          [ packet_identifier        |-> self.header.packet_identifier,
            query_response_indicator |-> "Reply",
            operation_code           |-> self.header.operation_code,
            authoritative_answer     |-> FALSE,
            truncation               |-> FALSE,
            recursion_desired        |-> self.header.recursion_desired,
            recursion_available      |-> FALSE,
            reserved                 |-> 0,
            response_code            |-> IF self.header.operation_code = 0
                                         THEN "NoError" ELSE "NotImplemented",
            question_count           |-> Len(self.questions),
            answer_record_count      |-> Len(self.answers) + 1,
            authority_record_count   |-> 0,
            additional_record_count  |-> 0 ],
      questions |-> self.questions,
      answers   |-> Append(self.answers, SyntheticAnswer) ]

\* DnsMessage::build_reply that answers a message that is already a reply
\* with NotImplemented
build_reply_rejects_replies(self) ==
    [ header |->
          [ packet_identifier        |-> self.header.packet_identifier,
            query_response_indicator |-> "Reply",
            operation_code           |-> self.header.operation_code,
            authoritative_answer     |-> FALSE,
            truncation               |-> FALSE,
            recursion_desired        |-> self.header.recursion_desired,
            recursion_available      |-> FALSE,
            reserved                 |-> 0,
            response_code            |-> IF self.header.operation_code = 0
                                            /\ self.header.query_response_indicator
                                                   = "Question"
                                         THEN "NoError" ELSE "NotImplemented",
            question_count           |-> Len(self.questions),
            answer_record_count      |-> 1,
            authority_record_count   |-> 0,
            additional_record_count  |-> 0 ],
      questions |-> self.questions,
      answers   |-> << SyntheticAnswer >> ]

\* DnsMessage::build_reply
build_reply(self) ==
    [ header |->
          [ packet_identifier        |-> self.header.packet_identifier,
            query_response_indicator |-> "Reply",
            operation_code           |-> self.header.operation_code,
            authoritative_answer     |-> FALSE,
            truncation               |-> FALSE,
            recursion_desired        |-> self.header.recursion_desired,
            recursion_available      |-> FALSE,
            reserved                 |-> 0,
            response_code            |-> IF self.header.operation_code = 0
                                         THEN "NoError" ELSE "NotImplemented",
            question_count           |-> Len(self.questions),
            answer_record_count      |-> 1,
            authority_record_count   |-> 0,
            additional_record_count  |-> 0 ],
      questions |-> self.questions,
      answers   |-> << SyntheticAnswer >> ]

\* DnsMessage::build_error_reply with the response code FormatError
build_error_reply_format_error ==
    [ header |->
          [ packet_identifier        |-> 1234,
            query_response_indicator |-> "Reply",
            operation_code           |-> 0,
            authoritative_answer     |-> FALSE,
            truncation               |-> FALSE,
            recursion_desired        |-> FALSE,
            recursion_available      |-> FALSE,
            reserved                 |-> 0,
            response_code            |-> "FormatError",
            question_count           |-> 0,
            answer_record_count      |-> 0,
            authority_record_count   |-> 0,
            additional_record_count  |-> 0 ],
      questions |-> << >>,
      answers   |-> << >> ]

\* DnsMessage::build_error_reply
build_error_reply ==
    [ header |->
          [ packet_identifier        |-> 1234,
            query_response_indicator |-> "Reply",
            operation_code           |-> 0,
            authoritative_answer     |-> FALSE,
            truncation               |-> FALSE,
            recursion_desired        |-> FALSE,
            recursion_available      |-> FALSE,
            reserved                 |-> 0,
            response_code            |-> "ServerFailure",
            question_count           |-> 0,
            answer_record_count      |-> 0,
            authority_record_count   |-> 0,
            additional_record_count  |-> 0 ],
      questions |-> << >>,
      answers   |-> << >> ]

\* .iter().map(|x| x.to_bytes()).flatten().collect()
RECURSIVE QuestionsBytes(_)
QuestionsBytes(questions) ==
    IF questions = << >> THEN << >>
    ELSE DnsQuestionToBytes(Head(questions)) \o QuestionsBytes(Tail(questions))
RECURSIVE AnswersBytes(_)
AnswersBytes(answers) ==
    IF answers = << >> THEN << >>
    ELSE DnsAnswerRecordToBytes(Head(answers)) \o AnswersBytes(Tail(answers))

\* A panic (an out-of-range slice index) unwinds instead of returning.
Panic == [ok |-> FALSE]

\* DnsMessage::to_bytes.  buffer[offset..offset + n] panics when
\* offset + n exceeds the buffer's 512 bytes.
DnsMessageToBytes(self) ==
    Let(DnsHeaderToBytes(self.header), LAMBDA header_bytes :
    Let(QuestionsBytes(self.questions), LAMBDA questions_bytes :
    Let(AnswersBytes(self.answers), LAMBDA answer_records_bytes :
    Let(Len(header_bytes), LAMBDA offset1 :
    Let(offset1 + Len(questions_bytes), LAMBDA offset2 :
        IF offset1 > PacketLen THEN Panic
        ELSE IF offset2 > PacketLen THEN Panic
        ELSE IF offset2 + Len(answer_records_bytes) > PacketLen THEN Panic
        ELSE Let(header_bytes \o questions_bytes \o answer_records_bytes,
                 LAMBDA written :
                     Ok([i \in 1..PacketLen |->
                            IF i <= Len(written) THEN written[i] ELSE 0])))))))

\* ------------------------------------------------------------------------
\* server.rs, main.rs: what the loops send
\* ------------------------------------------------------------------------
CodecraftersIo ==
    [ wire_format    |-> << 12, 99, 111, 100, 101, 99, 114, 97, 102, 116,
                            101, 114, 115, 2, 105, 111, 0 >>,
      label_segments |-> << << 99, 111, 100, 101, 99, 114, 97, 102, 116,
                               101, 114, 115 >>,
                            << 105, 111 >> >> ]

\* run: response_header
response_header ==
    DnsHeaderToBytes(
        [ packet_identifier        |-> 1234,
          query_response_indicator |-> "Reply",
          operation_code           |-> 0,
          authoritative_answer     |-> FALSE,
          truncation               |-> FALSE,
          recursion_desired        |-> FALSE,
          recursion_available      |-> FALSE,
          reserved                 |-> 0,
          response_code            |-> "NoError",
          question_count           |-> 1,
          answer_record_count      |-> 1,
          authority_record_count   |-> 0,
          additional_record_count  |-> 0 ])

\* run: response_question_section
response_question_section ==
    DnsQuestionToBytes([domain_name |-> CodecraftersIo,
                        record_type |-> "A", class |-> "IN"])

\* run: response_answer_section
response_answer_section ==
    DnsAnswerRecordToBytes(
        [ domain_name   |-> CodecraftersIo,
          record_type   |-> "A",
          class         |-> "IN",
          time_to_live  |-> U32(0, 60),
          r_data_length |-> 4,
          r_data        |-> << 8, 8, 8, 8 >> ])

\* run: the response array assembled in the Ok arm of the loop
run_response ==
    LET written == response_header \o response_question_section
                       \o response_answer_section
    IN  [i \in 1..PacketLen |-> IF i <= Len(written) THEN written[i] ELSE 0]

\* main: `let response = [];`
main_response == << >>

\* recv_from(&mut buf): the datagram's first bytes overwrite the start of
\* buf (a datagram longer than buf is cut), the rest of buf keeps its bytes.
RecvInto(buf, datagram) ==
    LET size == IF Len(datagram) < PacketLen THEN Len(datagram) ELSE PacketLen
    IN  [i \in 1..PacketLen |-> IF i <= size THEN datagram[i] ELSE buf[i]]

\* ------------------------------------------------------------------------
\* Bounds of the model
\* ------------------------------------------------------------------------
\* chunks concatenated after the header of an inbound packet
MaxChunks == 2
\* largest question / answer count declared by a generated header
MaxCount == 2
\* build_reply applications in one run
MaxReplies == 2
\* datagrams the server loop receives in one run
MaxDatagrams == 3

\* ------------------------------------------------------------------------
\* Inputs
\* ------------------------------------------------------------------------
Zeros == [i \in 1..PacketLen |-> 0]
\* bytes written at the start of a 512-byte packet, the rest filled with fill
Pad(bytes, fill) ==
    [i \in 1..PacketLen |-> IF i <= Len(bytes) THEN bytes[i] ELSE fill]
Rep(byte, n) == [i \in 1..n |-> byte]
RECURSIVE Times(_, _)
Times(chunk, n) == IF n = 0 THEN << >> ELSE chunk \o Times(chunk, n - 1)

\* the name with the given labels, as the decoder produces it
RECURSIVE LabelsWire(_)
LabelsWire(labels) ==
    IF labels = << >> THEN << 0 >>
    ELSE << Len(Head(labels)) >> \o Head(labels) \o LabelsWire(Tail(labels))
NameOf(labels) == [wire_format |-> LabelsWire(labels), label_segments |-> labels]

\* wire chunks: questions, answers, malformed entries
QRoot == << 0, 0, 1, 0, 1 >>
QName == << 1, 97, 2, 200, 0, 0, 16, 0, 3 >>
QBadType == << 0, 0, 17, 0, 1 >>
AFour == << 1, 97, 0, 0, 1, 0, 1, 0, 0, 0, 60, 0, 4, 1, 2, 3, 4 >>
AEmpty == << 0, 0, 2, 0, 1, 1, 2, 3, 4, 0, 0 >>
AOver == << 0, 0, 1, 0, 1, 0, 0, 0, 60, 1, 255, 1, 2, 3, 4 >>
Chunks == { QRoot, QName, QBadType, AFour, AEmpty, AOver }

RECURSIVE Bodies(_)
Bodies(n) ==
    IF n = 0 THEN { << >> }
    ELSE Bodies(n - 1) \cup { c \o b : c \in Chunks, b \in Bodies(n - 1) }

\* id, the two flag bytes, NSCOUNT, ARCOUNT and the bytes after the body
HeaderSeeds ==
    { [id |-> << 18, 52 >>, f |-> << 1, 0 >>, ns |-> 0, ar |-> 0, fill |-> 0],
      [id |-> << 0, 7 >>, f |-> << 8, 5 >>, ns |-> 1, ar |-> 0, fill |-> 255],
      [id |-> << 255, 255 >>, f |-> << 255, 255 >>, ns |-> 258, ar |-> 65535,
       fill |-> 0] }
HeaderBytes(seed, qd, an) ==
    seed.id \o seed.f \o U16ToBe(qd) \o U16ToBe(an) \o U16ToBe(seed.ns)
        \o U16ToBe(seed.ar)
PlainSeed == [id |-> << 18, 52 >>, f |-> << 1, 0 >>, ns |-> 0, ar |-> 0, fill |-> 0]

GeneratedPackets ==
    { Pad(HeaderBytes(seed, qd, an) \o body, seed.fill) :
        seed \in HeaderSeeds, qd \in 0..MaxCount, an \in 0..MaxCount,
        body \in Bodies(MaxChunks) }

\* a name of n bytes on the wire (n >= 3): labels of 'a' and the terminator
LongName(n) ==
    IF n <= 257 THEN << n - 2 >> \o Rep(97, n - 2) \o << 0 >>
    ELSE << 255 >> \o Rep(97, 255) \o << n - 258 >> \o Rep(97, n - 258) \o << 0 >>
LongLabels(n) ==
    IF n <= 257 THEN << Rep(97, n - 2) >>
    ELSE << Rep(97, 255), Rep(97, n - 258) >>

\* the labels of a name of n bytes on the wire (1 <= n <= 255, n # 2) whose
\* labels are 'a's, each at most 63 bytes long
RECURSIVE StdLabels(_)
StdLabels(n) ==
    IF n <= 1 THEN << >>
    ELSE IF n <= 65 THEN << Rep(97, n - 2) >>
    ELSE IF n = 66 THEN << Rep(97, 62) >> \o StdLabels(n - 63)
    ELSE << Rep(97, 63) >> \o StdLabels(n - 64)

\* packets whose two questions take 469, 470 and 500 of the 500 bytes after
\* the header, packets whose one answer ends at byte 511 and at byte 512,
\* packets with three or four entries, and a packet whose two questions,
\* with names of 231 bytes in labels of at most 63, take 470 bytes
SpecialPackets ==
    { Pad(HeaderBytes(PlainSeed, 2, 0) \o LongName(231) \o << 0, 1, 0, 1 >>
              \o LongName(n) \o << 0, 1, 0, 1 >>, 0) : n \in {230, 231, 261} }
    \cup { Pad(HeaderBytes(PlainSeed, 0, 1) \o LongName(n)
               \o << 0, 1, 0, 1, 0, 0, 0, 60, 0, 0 >>, 0) : n \in {489, 490} }
    \cup { Pad(HeaderBytes(PlainSeed, 1, 1) \o LongName(465) \o << 0, 1, 0, 1 >>
               \o AFour, 0) }
    \cup { Pad(HeaderBytes(seed, 2, 2) \o QName \o QRoot \o AFour \o AEmpty \o tail,
               seed.fill) : seed \in HeaderSeeds, tail \in { << >>, << 9 >> } }
    \cup { Pad(HeaderBytes(seed, 2, 2) \o QName \o QRoot \o AFour, seed.fill) :
               seed \in HeaderSeeds }
    \cup { Pad(HeaderBytes(PlainSeed, 2, 0)
               \o LabelsWire(StdLabels(231)) \o << 0, 1, 0, 1 >>
               \o LabelsWire(StdLabels(231)) \o << 0, 1, 0, 1 >>, 0) }

Packets == GeneratedPackets \cup SpecialPackets

\* messages built field by field (as the round-trip test builds one)
LiteralHeaders ==
    { [ packet_identifier        |-> 48879,
        query_response_indicator |-> "Reply",
        operation_code           |-> 0,
        authoritative_answer     |-> FALSE,
        truncation               |-> FALSE,
        recursion_desired        |-> TRUE,
        recursion_available      |-> FALSE,
        reserved                 |-> 0,
        response_code            |-> "NoError",
        question_count           |-> 0,
        answer_record_count      |-> 0,
        authority_record_count   |-> 0,
        additional_record_count  |-> 0 ],
      [ packet_identifier        |-> 65535,
        query_response_indicator |-> "Question",
        operation_code           |-> 15,
        authoritative_answer     |-> TRUE,
        truncation               |-> TRUE,
        recursion_desired        |-> FALSE,
        recursion_available      |-> TRUE,
        reserved                 |-> 7,
        response_code            |-> "Refused",
        question_count           |-> 0,
        answer_record_count      |-> 0,
        authority_record_count   |-> 3,
        additional_record_count  |-> 65535 ] }
WwwGoogleCom ==
    NameOf(<< << 119, 119, 119 >>, << 103, 111, 111, 103, 108, 101 >>,
              << 99, 111, 109 >> >>)
LitQuestion == [domain_name |-> WwwGoogleCom, record_type |-> "A", class |-> "IN"]
LitQuestionRoot == [domain_name |-> NameOf(<< >>), record_type |-> "TXT", class |-> "HS"]
LitAnswer ==
    [ domain_name |-> WwwGoogleCom, record_type |-> "A", class |-> "IN",
      time_to_live |-> U32(0, 300), r_data_length |-> 4, r_data |-> << 8, 8, 8, 8 >> ]
\* a record of name_len wire bytes for its name and an empty payload
LitAnswerEmpty(name_len) ==
    [ domain_name |-> [wire_format |-> LongName(name_len),
                       label_segments |-> LongLabels(name_len)],
      record_type |-> "MX", class |-> "CS",
      time_to_live |-> U32(65535, 65535), r_data_length |-> 0, r_data |-> << >> ]
LiteralQuestionLists ==
    { << >>, << LitQuestion >>, << LitQuestionRoot, LitQuestion >> }
\* 12 + 490 + 10 = 512: the last list encodes to exactly 512 bytes when
\* there are no questions
LiteralAnswerLists ==
    { << >>, << LitAnswer >>, << LitAnswerEmpty(3), LitAnswer >>,
      << LitAnswer, LitAnswerEmpty(3) >>, << LitAnswerEmpty(490) >> }
\* a question (259 bytes) and a record with an empty payload (241 bytes)
\* whose names have labels of at most 63 bytes: 12 + 259 + 241 = 512
LitQuestionStd ==
    [domain_name |-> NameOf(StdLabels(255)), record_type |-> "A", class |-> "IN"]
LitAnswerEmptyStd ==
    [ domain_name |-> NameOf(StdLabels(231)), record_type |-> "A", class |-> "IN",
      time_to_live |-> U32(0, 60), r_data_length |-> 0, r_data |-> << >> ]
LiteralMessages ==
    { [ header    |-> [h EXCEPT !.question_count = Len(qs),
                                !.answer_record_count = Len(as)],
        questions |-> qs,
        answers   |-> as ] :
        h \in LiteralHeaders, qs \in LiteralQuestionLists,
        as \in LiteralAnswerLists }
    \cup { [ header    |-> [h EXCEPT !.question_count = 1,
                                     !.answer_record_count = 1],
             questions |-> << LitQuestionStd >>,
             answers   |-> << LitAnswerEmptyStd >> ] : h \in LiteralHeaders }

\* ------------------------------------------------------------------------
\* State
\* ------------------------------------------------------------------------
VARIABLES
    \* one message through the codec (dns_message.rs)
    pc,        \* "start", "message", "failed", "encoded", "panicked", "done"
    packet,    \* the inbound [u8; 512], << >> when the message is a literal
    msg,       \* the Result / DnsMessage last constructed
    origin,    \* which constructor made msg
    inbound,   \* the message build_reply was last applied to
    replies,   \* build_reply applications so far
    out,       \* what to_bytes returned for msg (Panic when it panicked)
    back,      \* DnsMessage::new applied to out
    \* one batch decode (parse_all_questions / parse_all_answers)
    b_pc,      \* "start", "questions", "answers"
    buffer,    \* the slice handed to the batch decoder
    count,     \* the number of entries asked for
    batch,     \* the Result it returned
    \* the server loop (server.rs run, main.rs main)
    s_pc,      \* "bind", "recv", "send", "returned", "panicked"
    entry,     \* which loop runs: "run" or "main"
    buf,       \* the receive buffer
    peer,      \* the source address of the datagram last received
    sent,      \* the datagrams handed to send_to, in order
    received,  \* datagrams received so far
    io_calls,  \* recv_from and send_to calls made so far
    sock_err,  \* whether a socket call has failed
    \* one name, question or record through its decoder and encoder
    e_pc,      \* "start", "record", then the operation last applied
    e_buf,     \* the bytes handed to the decoder, << >> for a built record
    e_val,     \* the Result of the decoder, or Ok of the built record
    e_bytes,   \* what to_bytes returned for e_val
    \* one value through a conversion of header.rs, record_type.rs, class.rs
    v_pc,      \* the kind of the argument, then the conversion last applied
    v_arg,     \* the argument: a byte slice, a DnsHeader, a u8 or a u16
    v_ret,     \* what the decoding conversion returned for v_arg
    v_enc,     \* what the encoding conversion returned
    v_dec      \* the DnsHeader decoded from v_enc

codec_vars == << pc, packet, msg, origin, inbound, replies, out, back >>
batch_vars == << b_pc, buffer, count, batch >>
server_vars == << s_pc, entry, buf, peer, sent, received, io_calls, sock_err >>
entry_vars == << e_pc, e_buf, e_val, e_bytes >>
value_vars == << v_pc, v_arg, v_ret, v_enc, v_dec >>
vars == << codec_vars, batch_vars, server_vars, entry_vars, value_vars >>

CodecIdle ==
    /\ pc = "idle" /\ packet = << >> /\ msg = Err /\ origin = "none"
    /\ inbound = Err /\ replies = 0 /\ out = Err /\ back = Err
BatchIdle ==
    /\ b_pc = "idle" /\ buffer = << >> /\ count = 0 /\ batch = Err
ServerIdle ==
    /\ s_pc = "idle" /\ entry = "none" /\ buf = << >> /\ peer = "none"
    /\ sent = << >> /\ received = 0 /\ io_calls = 0 /\ sock_err = FALSE
EntryIdle ==
    /\ e_pc = "idle" /\ e_buf = << >> /\ e_val = Err /\ e_bytes = << >>
ValueIdle ==
    /\ v_pc = "idle" /\ v_arg = << >> /\ v_ret = Err /\ v_enc = << >>
    /\ v_dec = Err

\* ------------------------------------------------------------------------
\* The codec applied to one inbound packet or one literal message
\* ------------------------------------------------------------------------
Init ==
    /\ \/ /\ pc = "start" /\ packet \in Packets
          /\ msg = Err /\ origin = "none"
       \/ /\ pc = "message" /\ packet = << >>
          /\ msg \in { Ok(m) : m \in LiteralMessages } /\ origin = "literal"
    /\ inbound = Err /\ replies = 0 /\ out = Err /\ back = Err
    /\ BatchIdle /\ ServerIdle /\ EntryIdle /\ ValueIdle

\* DnsMessage::new(&packet)
New ==
    /\ pc = "start"
    /\ msg' = DnsMessageNew(packet)
    /\ origin' = "new"
    /\ pc' = IF msg'.ok THEN "message" ELSE "failed"
    /\ UNCHANGED << packet, inbound, replies, out, back, batch_vars, server_vars, entry_vars,
                    value_vars >>

\* msg.build_reply()
BuildReply ==
    /\ pc = "message"
    /\ replies < MaxReplies
    /\ inbound' = msg
    /\ msg' = Ok(build_reply(msg.val))
    /\ origin' = "build_reply"
    /\ replies' = replies + 1
    /\ UNCHANGED << pc, packet, out, back, batch_vars, server_vars, entry_vars,
                    value_vars >>

\* DnsMessage::build_error_reply(), used when the decode failed
BuildErrorReply ==
    /\ pc = "failed"
    /\ msg' = Ok(build_error_reply)
    /\ origin' = "build_error_reply"
    /\ pc' = "message"
    /\ UNCHANGED << packet, inbound, replies, out, back, batch_vars, server_vars, entry_vars,
                    value_vars >>

\* msg.to_bytes()
ToBytes ==
    /\ pc = "message"
    /\ out' = DnsMessageToBytes(msg.val)
    /\ pc' = IF out'.ok THEN "encoded" ELSE "panicked"
    /\ UNCHANGED << packet, msg, origin, inbound, replies, back, batch_vars,
                    server_vars, entry_vars,
                    value_vars >>

\* DnsMessage::new(&msg.to_bytes())
Reparse ==
    /\ pc = "encoded"
    /\ back' = DnsMessageNew(out.val)
    /\ pc' = "done"
    /\ UNCHANGED << packet, msg, origin, inbound, replies, out, batch_vars,
                    server_vars, entry_vars,
                    value_vars >>

Next == New \/ BuildReply \/ BuildErrorReply \/ ToBytes \/ Reparse

Spec == Init /\ [][Next]_vars

\* ------------------------------------------------------------------------
\* The batch decoders applied to one buffer
\* ------------------------------------------------------------------------
\* buffers that end right after their last entry, and the same followed by
\* more bytes
BatchBuffers ==
    Bodies(MaxChunks)
    \cup { b \o << 7, 0, 0 >> : b \in Bodies(MaxChunks) }
    \cup { QName \o QRoot \o QName, AFour \o AEmpty \o AFour \o << 0 >> }

BatchInit ==
    /\ b_pc = "start"
    /\ buffer \in BatchBuffers
    /\ count \in 0..(MaxCount + 1)
    /\ batch = Err
    /\ CodecIdle /\ ServerIdle /\ EntryIdle /\ ValueIdle

\* DnsQuestion::parse_all_questions(buffer, count)
ParseAllQuestions ==
    /\ b_pc = "start"
    /\ batch' = parse_all_questions(buffer, count)
    /\ b_pc' = "questions"
    /\ UNCHANGED << buffer, count, codec_vars, server_vars, entry_vars,
                    value_vars >>

\* DnsAnswerRecord::parse_all_answers(buffer, count)
ParseAllAnswers ==
    /\ b_pc = "start"
    /\ batch' = parse_all_answers(buffer, count)
    /\ b_pc' = "answers"
    /\ UNCHANGED << buffer, count, codec_vars, server_vars, entry_vars,
                    value_vars >>

BatchNext == ParseAllQuestions \/ ParseAllAnswers

BatchSpec == BatchInit /\ [][BatchNext]_vars

\* ------------------------------------------------------------------------
\* The server loops
\* ------------------------------------------------------------------------
\* datagrams a client may send: a query for the root name, a query with
\* opcode 1 and a one-label name, a datagram too short for a header, an
\* empty datagram
Datagrams ==
    { << 18, 52, 1, 0, 0, 1, 0, 0, 0, 0, 0, 0 >> \o QRoot,
      << 0, 7, 8, 0, 0, 1, 0, 0, 0, 0, 0, 0 >> \o << 1, 97, 0, 0, 1, 0, 1 >>,
      << 1, 2, 3 >>,
      << >> }
Peers == { "client1", "client2" }

ServerInit ==
    /\ s_pc = "bind"
    /\ entry \in { "run", "main" }
    /\ buf = Zeros
    /\ peer = "none"
    /\ sent = << >>
    /\ received = 0
    /\ io_calls = 0
    /\ sock_err = FALSE
    /\ CodecIdle /\ BatchIdle /\ EntryIdle /\ ValueIdle

\* UdpSocket::bind(..) succeeds (run: `?`, main: `.expect`)
Bind ==
    /\ s_pc = "bind"
    /\ s_pc' = "recv"
    /\ UNCHANGED << entry, buf, peer, sent, received, io_calls, sock_err,
                    codec_vars, batch_vars, entry_vars,
                    value_vars >>

\* UdpSocket::bind(..) fails: run returns the error, main panics
BindErr ==
    /\ s_pc = "bind"
    /\ s_pc' = IF entry = "run" THEN "returned" ELSE "panicked"
    /\ sock_err' = TRUE
    /\ UNCHANGED << entry, buf, peer, sent, received, io_calls,
                    codec_vars, batch_vars, entry_vars,
                    value_vars >>

\* udp_socket.recv_from(&mut buf) returns Ok((size, source))
RecvOk ==
    /\ s_pc = "recv"
    /\ received < MaxDatagrams
    /\ \E datagram \in Datagrams, source \in Peers :
          /\ buf' = RecvInto(buf, datagram)
          /\ peer' = source
    /\ received' = received + 1
    /\ io_calls' = io_calls + 1
    /\ s_pc' = "send"
    /\ UNCHANGED << entry, sent, sock_err, codec_vars, batch_vars, entry_vars,
                    value_vars >>

\* udp_socket.recv_from(&mut buf) returns Err(e): run returns Err(e), main
\* breaks out of the loop and returns
RecvErr ==
    /\ s_pc = "recv"
    /\ io_calls' = io_calls + 1
    /\ sock_err' = TRUE
    /\ s_pc' = "returned"
    /\ UNCHANGED << entry, buf, peer, sent, received, codec_vars, batch_vars, entry_vars,
                    value_vars >>

\* run: the Ok arm assembles the response and send_to(&response, source)
\* succeeds
RunSendOk ==
    /\ s_pc = "send" /\ entry = "run"
    /\ sent' = Append(sent, [to |-> peer, data |-> run_response])
    /\ io_calls' = io_calls + 1
    /\ s_pc' = "recv"
    /\ UNCHANGED << entry, buf, peer, received, sock_err, codec_vars, batch_vars, entry_vars,
                    value_vars >>

\* run with a failed send_to logged and the loop continued (`if let Err(e)`
\* in place of `?`)
RunSendErrContinue ==
    /\ s_pc = "send" /\ entry = "run"
    /\ io_calls' = io_calls + 1
    /\ sock_err' = TRUE
    /\ s_pc' = "recv"
    /\ UNCHANGED << entry, buf, peer, sent, received, codec_vars, batch_vars, entry_vars,
                    value_vars >>

\* run: send_to(&response, source)? fails and run returns the error
RunSendErr ==
    /\ s_pc = "send" /\ entry = "run"
    /\ io_calls' = io_calls + 1
    /\ sock_err' = TRUE
    /\ s_pc' = "returned"
    /\ UNCHANGED << entry, buf, peer, sent, received, codec_vars, batch_vars, entry_vars,
                    value_vars >>

\* main: send_to(&response, source) succeeds
MainSendOk ==
    /\ s_pc = "send" /\ entry = "main"
    /\ sent' = Append(sent, [to |-> peer, data |-> main_response])
    /\ io_calls' = io_calls + 1
    /\ s_pc' = "recv"
    /\ UNCHANGED << entry, buf, peer, received, sock_err, codec_vars, batch_vars, entry_vars,
                    value_vars >>

\* main: send_to(..).expect("Failed to send response") panics
MainSendErr ==
    /\ s_pc = "send" /\ entry = "main"
    /\ io_calls' = io_calls + 1
    /\ sock_err' = TRUE
    /\ s_pc' = "panicked"
    /\ UNCHANGED << entry, buf, peer, sent, received, codec_vars, batch_vars, entry_vars,
                    value_vars >>

ServerNext ==
    \/ Bind \/ BindErr \/ RecvOk \/ RecvErr
    \/ RunSendOk \/ RunSendErr \/ MainSendOk \/ MainSendErr

ServerSpec == ServerInit /\ [][ServerNext]_vars

\* ------------------------------------------------------------------------
\* The entry decoders and DnsAnswerRecord::to_bytes applied to one input
\* ------------------------------------------------------------------------
\* names on the wire: the root, one label, three labels, a name without its
\* terminator, a label cut short, a length byte of pointer style, and names
\* whose labels hold bytes of 0x80 and more
EntryNames ==
    { << 0 >>,
      << 1, 97, 0 >>,
      WwwGoogleCom.wire_format,
      << 6, 103, 111, 111, 103, 108, 101, 3, 99, 111, 109 >>,
      << 3, 97, 98 >>,
      << 192, 12 >>,
      << 1, 200, 0 >>,
      << 2, 200, 0 >>,
      << 6, 200, 200, 97, 97, 1, 98, 0 >>,
      << 24 >> \o Rep(200, 12) \o << 0 >>,
      << 26 >> \o Rep(200, 13) \o << 0 >> }
\* what follows a name: TYPE, CLASS, TTL, RDLENGTH, RDATA and more bytes
EntryTails ==
    { << 0, 1, 0, 1, 0, 0, 0, 42, 0, 4, 192, 168, 1, 1 >>,
      << 0, 16, 0, 4, 255, 255, 255, 255, 0, 0 >>,
      << 0, 15, 0, 3, 0, 1, 0, 0, 0, 0, 7 >>,
      << 0, 17, 0, 1 >>,
      << 0, 1, 0, 5 >>,
      << 255, 255, 0, 1 >>,
      << 0, 1, 0, 1, 0, 0, 0, 60, 0, 12, 9, 0, 0, 1, 0, 1, 0, 0, 0, 60, 0, 0 >> }
Prefixes(t) == { SubSeq(t, 1, k) : k \in 0..Len(t) }
\* slices that start with an RDLENGTH: those of test_r_data_new, an
\* RDLENGTH of 0 with and without bytes after it, and a payload followed by
\* more bytes
RDataSlices ==
    { << 8, 8 >>, << 0, 2, 8 >>, << 0, 4, 8, 8, 8, 8 >>, << 0, 0 >>,
      << 0, 0, 7 >>, << 0 >>, << 0, 4, 8, 8, 8, 8, 9, 9 >>,
      << 0, 1, 255 >>, << 0, 3, 7, 7 >>, << 1, 0, 7, 7 >> }
EntryBuffers ==
    { << >> }
    \cup { n \o p : n \in EntryNames, p \in UNION { Prefixes(t) : t \in EntryTails } }
    \cup RDataSlices

\* records built field by field: with r_data_length the length of r_data,
\* and with r_data_length holding another value
EntryRecords ==
    { [LitAnswer EXCEPT !.r_data_length = n] : n \in { 4, 0, 16, 65540 } }
    \cup { [LitAnswerEmpty(3) EXCEPT !.r_data_length = n] : n \in { 0, 4 } }

EntryInit ==
    /\ \/ /\ e_pc = "start" /\ e_buf \in EntryBuffers /\ e_val = Err
       \/ /\ e_pc = "record" /\ e_buf = << >>
          /\ e_val \in { Ok(r) : r \in EntryRecords }
    /\ e_bytes = << >>
    /\ CodecIdle /\ BatchIdle /\ ServerIdle /\ ValueIdle

\* DomainName::new(e_buf), domain_name.rs
DecodeName ==
    /\ e_pc = "start"
    /\ e_val' = DomainNameNew(e_buf)
    /\ e_pc' = "name"
    /\ UNCHANGED << e_buf, e_bytes, codec_vars, batch_vars, server_vars,
                    value_vars >>

\* DomainName::new(e_buf), question.rs
DecodeQuestionRsName ==
    /\ e_pc = "start"
    /\ e_val' = QuestionRsDomainNameNew(e_buf)
    /\ e_pc' = "question_rs_name"
    /\ UNCHANGED << e_buf, e_bytes, codec_vars, batch_vars, server_vars,
                    value_vars >>

\* DnsQuestion::new(e_buf), question.rs
DecodeQuestion ==
    /\ e_pc = "start"
    /\ e_val' = QuestionRsDnsQuestionNew(e_buf)
    /\ e_pc' = "question"
    /\ UNCHANGED << e_buf, e_bytes, codec_vars, batch_vars, server_vars,
                    value_vars >>

\* DnsAnswerRecord::new(e_buf)
DecodeAnswer ==
    /\ e_pc = "start"
    /\ e_val' = DnsAnswerRecordNew(e_buf)
    /\ e_pc' = "answer"
    /\ UNCHANGED << e_buf, e_bytes, codec_vars, batch_vars, server_vars,
                    value_vars >>

\* RData::new(e_buf)
DecodeRData ==
    /\ e_pc = "start"
    /\ e_val' = RDataNew(e_buf)
    /\ e_pc' = "r_data"
    /\ UNCHANGED << e_buf, e_bytes, codec_vars, batch_vars, server_vars,
                    value_vars >>

\* record.to_bytes() on a decoded record or on a built one
EncodeAnswer ==
    /\ e_pc \in { "answer", "record" }
    /\ e_val.ok
    /\ e_bytes' = DnsAnswerRecordToBytes(e_val.val)
    /\ e_pc' = IF e_pc = "answer" THEN "answer_bytes" ELSE "record_bytes"
    /\ UNCHANGED << e_buf, e_val, codec_vars, batch_vars, server_vars,
                    value_vars >>

EntryNext ==
    DecodeName \/ DecodeQuestionRsName \/ DecodeQuestion \/ DecodeAnswer
        \/ DecodeRData \/ EncodeAnswer

EntrySpec == EntryInit /\ [][EntryNext]_vars

\* ------------------------------------------------------------------------
\* The conversions of header.rs applied to one slice, header or byte
\* ------------------------------------------------------------------------
\* identifier and counts of a 12-byte header: those of the tests, all zero,
\* all ones, and bytes that differ from each other
HeaderFrames ==
    { << 4, 210, 0, 1, 0, 2, 0, 3, 0, 4 >>,
      << 18, 52, 0, 1, 0, 1, 0, 0, 0, 0 >>,
      << 0, 0, 0, 0, 0, 0, 0, 0, 0, 0 >>,
      << 255, 255, 255, 255, 255, 255, 255, 255, 255, 255 >>,
      << 1, 2, 5, 6, 7, 8, 9, 10, 11, 12 >> }
\* the 12 bytes of a header with the given frame and flag bytes
HeaderArray(frame, flags_first_byte, flags_second_byte) ==
    SubSeq(frame, 1, 2) \o << flags_first_byte, flags_second_byte >>
        \o SubSeq(frame, 3, 10)
\* every pair of flag bytes in the frame of the tests, and the other frames
\* with the flag bytes of a few headers
HeaderArrays ==
    { HeaderArray(<< 4, 210, 0, 1, 0, 2, 0, 3, 0, 4 >>, f, s) :
          f \in 0..255, s \in 0..255 }
    \cup { HeaderArray(frame, fs[1], fs[2]) :
               frame \in HeaderFrames,
               fs \in { << 129, 0 >>, << 1, 0 >>, << 0, 0 >>, << 255, 255 >>,
                        << 120, 112 >>, << 135, 143 >>, << 40, 38 >> } }
\* slices given to DnsHeader::new: 12 bytes, fewer, and more
HeaderSlices ==
    HeaderArrays
    \cup { SubSeq(a, 1, k) : a \in { HeaderArray(frame, 129, 0) : frame \in HeaderFrames },
                             k \in 0..11 }
    \cup { << 0, 1, 2, 3, 4, 5 >> }
    \cup { HeaderArray(frame, 129, 134) \o t :
               frame \in HeaderFrames,
               t \in { << 0 >>, WwwGoogleCom.wire_format \o << 0, 1, 0, 1 >> } }
\* DnsHeader values built field by field; operation_code and reserved are
\* u8 fields, so values above 15 and above 7 can be stored
HeaderRecords ==
    { [ packet_identifier        |-> c[1],
        query_response_indicator |-> qr,
        operation_code           |-> op,
        authoritative_answer     |-> aa,
        truncation               |-> tc,
        recursion_desired        |-> rd,
        recursion_available      |-> ra,
        reserved                 |-> z,
        response_code            |-> rc,
        question_count           |-> c[2],
        answer_record_count      |-> c[3],
        authority_record_count   |-> c[4],
        additional_record_count  |-> c[5] ] :
      c \in { << 1234, 1, 0, 0, 0 >>, << 65535, 256, 65535, 2, 513 >> },
      qr \in { "Question", "Reply" },
      op \in 0..15 \cup { 16, 17, 255 },
      aa \in BOOLEAN, tc \in BOOLEAN, rd \in BOOLEAN, ra \in BOOLEAN,
      z \in 0..7 \cup { 8, 255 },
      rc \in { "NoError", "FormatError", "ServerFailure", "NameError",
               "NotImplemented", "Refused" } }

HeaderInit ==
    /\ \/ v_pc = "slice" /\ v_arg \in HeaderSlices
       \/ v_pc = "header" /\ v_arg \in HeaderRecords
       \/ v_pc = "u8" /\ v_arg \in 0..255
    /\ v_ret = Err /\ v_enc = << >> /\ v_dec = Err
    /\ CodecIdle /\ BatchIdle /\ ServerIdle /\ EntryIdle

\* DnsHeader::new(v_arg)
HeaderNew ==
    /\ v_pc = "slice"
    /\ v_ret' = DnsHeaderNew(v_arg)
    /\ v_pc' = "parsed"
    /\ UNCHANGED << v_arg, v_enc, v_dec, codec_vars, batch_vars, server_vars,
                    entry_vars >>

\* header.to_bytes() on a decoded header
ParsedToBytes ==
    /\ v_pc = "parsed"
    /\ v_ret.ok
    /\ v_enc' = DnsHeaderToBytes(v_ret.val)
    /\ v_pc' = "parsed_bytes"
    /\ UNCHANGED << v_arg, v_ret, v_dec, codec_vars, batch_vars, server_vars,
                    entry_vars >>

\* header.to_bytes() on a built header
HeaderToBytes ==
    /\ v_pc = "header"
    /\ v_enc' = DnsHeaderToBytes(v_arg)
    /\ v_pc' = "header_bytes"
    /\ UNCHANGED << v_arg, v_ret, v_dec, codec_vars, batch_vars, server_vars,
                    entry_vars >>

\* DnsHeader::from(&bytes) on the bytes of a built header
HeaderFromBytes ==
    /\ v_pc = "header_bytes"
    /\ v_dec' = Ok(DnsHeaderFrom(v_enc))
    /\ v_pc' = "header_back"
    /\ UNCHANGED << v_arg, v_ret, v_enc, codec_vars, batch_vars, server_vars,
                    entry_vars >>

\* ResponseCode::from(v_arg)
ResponseCodeFromU8 ==
    /\ v_pc = "u8"
    /\ v_ret' = Ok(ResponseCodeFrom(v_arg))
    /\ v_pc' = "response_code"
    /\ UNCHANGED << v_arg, v_enc, v_dec, codec_vars, batch_vars, server_vars,
                    entry_vars >>

HeaderNext ==
    HeaderNew \/ ParsedToBytes \/ HeaderToBytes \/ HeaderFromBytes
        \/ ResponseCodeFromU8

HeaderSpec == HeaderInit /\ [][HeaderNext]_vars

\* ------------------------------------------------------------------------
\* RecordType and Class converted from and to their 16-bit wire value
\* ------------------------------------------------------------------------
\* every u16
WireValues == 0..65535

WireValueInit ==
    /\ v_pc = "u16" /\ v_arg \in WireValues
    /\ v_ret = Err /\ v_enc = << >> /\ v_dec = Err
    /\ CodecIdle /\ BatchIdle /\ ServerIdle /\ EntryIdle

\* RecordType::try_from(v_arg)
RecordTypeFromU16 ==
    /\ v_pc = "u16"
    /\ v_ret' = RecordTypeTryFrom(v_arg)
    /\ v_pc' = "record_type"
    /\ UNCHANGED << v_arg, v_enc, v_dec, codec_vars, batch_vars, server_vars,
                    entry_vars >>

\* Class::try_from(v_arg)
ClassFromU16 ==
    /\ v_pc = "u16"
    /\ v_ret' = ClassTryFrom(v_arg)
    /\ v_pc' = "class"
    /\ UNCHANGED << v_arg, v_enc, v_dec, codec_vars, batch_vars, server_vars,
                    entry_vars >>

\* (record_type as u16).to_be_bytes()
RecordTypeToBytes ==
    /\ v_pc = "record_type"
    /\ v_ret.ok
    /\ v_enc' = U16ToBe(RecordTypeAsU16(v_ret.val))
    /\ v_pc' = "record_type_bytes"
    /\ UNCHANGED << v_arg, v_ret, v_dec, codec_vars, batch_vars, server_vars,
                    entry_vars >>

\* (class as u16).to_be_bytes()
ClassToBytes ==
    /\ v_pc = "class"
    /\ v_ret.ok
    /\ v_enc' = U16ToBe(ClassAsU16(v_ret.val))
    /\ v_pc' = "class_bytes"
    /\ UNCHANGED << v_arg, v_ret, v_dec, codec_vars, batch_vars, server_vars,
                    entry_vars >>

WireValueNext ==
    RecordTypeFromU16 \/ ClassFromU16 \/ RecordTypeToBytes \/ ClassToBytes

WireValueSpec == WireValueInit /\ [][WireValueNext]_vars

\* ------------------------------------------------------------------------
\* Properties of DnsMessage::new
\* ------------------------------------------------------------------------
\* msg is the result of DnsMessage::new(&packet)
Decoded == origin = "new"

\* 0-based offset in the packet of question i / answer j of a decoded
\* message, from the wire lengths of the entries before it
QuestionStart(m, i) ==
    HeaderLen + Len(QuestionsBytes(SubSeq(m.questions, 1, i - 1)))
AnswerStart(m, j) ==
    HeaderLen + Len(QuestionsBytes(m.questions))
        + Len(AnswersBytes(SubSeq(m.answers, 1, j - 1)))
\* the offset of the first byte after the last decoded answer
MessageEnd(m) == AnswerStart(m, Len(m.answers) + 1)

\* the packet with every byte from offset `from` on replaced by fill
WithTail(p, from, fill) ==
    [i \in 1..PacketLen |-> IF i <= from THEN p[i] ELSE fill]
TailFills == { 0, 1, 255 }

\* 0-based offset of the first byte after qd questions followed by an
\* answers, each entry decoded at the offset where the one before it ended,
\* the first at offset `at`; -1 when one of them does not decode
RECURSIVE EntriesEnd(_, _, _, _)
EntriesEnd(p, at, qd, an) ==
    IF qd > 0
    THEN LET q == DnsQuestionNew(SliceFrom(p, at))
         IN  IF q.ok
             THEN EntriesEnd(p, at + Len(q.val.domain_name.wire_format) + 4,
                             qd - 1, an)
             ELSE -1
    ELSE IF an > 0
    THEN LET a == DnsAnswerRecordNew(SliceFrom(p, at))
         IN  IF a.ok
             THEN EntriesEnd(p, at + Len(a.val.domain_name.wire_format) + 10
                                    + Len(a.val.r_data),
                             0, an - 1)
             ELSE -1
    ELSE at
\* the same for the entries a packet's header declares, from byte 12 on
DeclaredEnd(p) ==
    EntriesEnd(p, HeaderLen, U16FromBe(At(p, 4), At(p, 5)),
               U16FromBe(At(p, 6), At(p, 7)))

\* C1: an Ok result of DnsMessage::new holds the header decoded from bytes
\* 0..12, the questions decoded one after the other from byte 12 on, the
\* answers decoded one after the other from the first byte after the last
\* question, and it is the same whatever the bytes after the last decoded
\* answer are.
C1_SequentialDecode ==
    (Decoded /\ msg.ok) =>
        LET m == msg.val
        IN  /\ m.header = DnsHeaderFrom(SubSeq(packet, 1, HeaderLen))
            /\ Len(m.questions) = m.header.question_count
            /\ Len(m.answers) = m.header.answer_record_count
            /\ \A i \in 1..Len(m.questions) :
                  LET q == DnsQuestionNew(SliceFrom(packet, QuestionStart(m, i)))
                  IN  q.ok /\ q.val = m.questions[i]
            /\ \A j \in 1..Len(m.answers) :
                  LET a == DnsAnswerRecordNew(SliceFrom(packet, AnswerStart(m, j)))
                  IN  a.ok /\ a.val = m.answers[j]
            /\ \A fill \in TailFills :
                  LET other == DnsMessageNew(WithTail(packet, MessageEnd(m), fill))
                  IN  other.ok /\ other.val = m

\* a packet with two questions and two answers decoded, followed by bytes
\* that are not zero
C1_Witness ==
    /\ Decoded /\ msg.ok
    /\ Len(msg.val.questions) = 2 /\ Len(msg.val.answers) = 2
    /\ MessageEnd(msg.val) < PacketLen
    /\ packet[MessageEnd(msg.val) + 1] # 0

\* C2: an Ok result of DnsMessage::new has exactly as many questions and
\* answers as the packet's header declares, and the result is Err exactly
\* when one of the declared entries does not decode at its place.
C2_CountsAreExact ==
    Decoded =>
        /\ msg.ok <=> DeclaredEnd(packet) # -1
        /\ msg.ok =>
              /\ Len(msg.val.questions) = U16FromBe(At(packet, 4), At(packet, 5))
              /\ Len(msg.val.answers) = U16FromBe(At(packet, 6), At(packet, 7))
              /\ msg.val.header.question_count = Len(msg.val.questions)
              /\ msg.val.header.answer_record_count = Len(msg.val.answers)

\* a packet that declares one question and one answer, whose question
\* decodes and whose answer's RDLENGTH is larger than what is left: Err
C2_Witness ==
    /\ Decoded /\ ~msg.ok
    /\ U16FromBe(At(packet, 4), At(packet, 5)) = 1
    /\ U16FromBe(At(packet, 6), At(packet, 7)) = 1
    /\ LET q == DnsQuestionNew(SliceFrom(packet, HeaderLen))
       IN  /\ q.ok
           /\ LET at == HeaderLen + Len(q.val.domain_name.wire_format) + 4
                  name == DomainNameNew(SliceFrom(packet, at))
              IN  /\ name.ok
                  /\ get_ttl_from_packet(SliceFrom(packet, at),
                                         Len(name.val.wire_format)).ok
                  /\ U16FromBe(At(packet, at + Len(name.val.wire_format) + 8),
                               At(packet, at + Len(name.val.wire_format) + 9))
                         > PacketLen - (at + Len(name.val.wire_format) + 10)


\* ------------------------------------------------------------------------
\* Properties of the batch decoders
\* ------------------------------------------------------------------------
\* 0-based offset of entry i of a decoded list in the buffer it came from
QuestionAt(list, i) == Len(QuestionsBytes(SubSeq(list, 1, i - 1)))
AnswerAt(list, i) == Len(AnswersBytes(SubSeq(list, 1, i - 1)))

Replied == origin = "build_reply"

\* C4: the header of m.build_reply() has m's packet id, opcode and RD flag,
\* QR = Reply, AA = TC = RA = false, reserved = 0, authority and additional
\* counts 0, and response code NoError when m's opcode is 0 and
\* NotImplemented otherwise.
C4_ReplyHeader ==
    Replied =>
        LET m == inbound.val.header
            r == msg.val.header
        IN  /\ r.packet_identifier = m.packet_identifier
            /\ r.operation_code = m.operation_code
            /\ r.recursion_desired = m.recursion_desired
            /\ r.query_response_indicator = "Reply"
            /\ r.authoritative_answer = FALSE
            /\ r.truncation = FALSE
            /\ r.recursion_available = FALSE
            /\ r.reserved = 0
            /\ r.authority_record_count = 0
            /\ r.additional_record_count = 0
            /\ r.response_code = IF m.operation_code = 0
                                 THEN "NoError" ELSE "NotImplemented"

\* a reply to a decoded query with opcode 15, RD set, AA set and a non-zero
\* authority count
C4_Witness ==
    /\ Replied /\ packet # << >> /\ replies = 1
    /\ inbound.val.header.operation_code = 15
    /\ inbound.val.header.recursion_desired
    /\ inbound.val.header.authoritative_answer
    /\ inbound.val.header.authority_record_count # 0
    /\ msg.val.header.response_code = "NotImplemented"

\* C5: m.build_reply() has m's questions, question_count = their number,
\* answer count 1, and as its answers the one record A / IN / TTL 60 /
\* 4-byte payload that is the same for every m.
C5_FixedAnswer ==
    Replied =>
        /\ msg.val.questions = inbound.val.questions
        /\ msg.val.header.question_count = Len(inbound.val.questions)
        /\ msg.val.header.answer_record_count = 1
        /\ Len(msg.val.answers) = 1
        /\ msg.val.answers[1].record_type = "A"
        /\ msg.val.answers[1].class = "IN"
        /\ msg.val.answers[1].time_to_live = U32(0, 60)
        /\ msg.val.answers[1].r_data_length = 4
        /\ Len(msg.val.answers[1].r_data) = 4
        /\ msg.val.answers[1] = SyntheticAnswer

\* a reply to a decoded message that had two questions and two answers
C5_Witness ==
    /\ Replied /\ packet # << >> /\ replies = 1
    /\ Len(inbound.val.questions) = 2
    /\ Len(inbound.val.answers) = 2
    /\ inbound.val.answers[1] # SyntheticAnswer

\* ------------------------------------------------------------------------
\* Properties of DnsMessage::to_bytes
\* ------------------------------------------------------------------------
\* C6: to_bytes applied to a message that came from DnsMessage::new on a
\* 512-byte packet, from build_reply applied to such a message or from
\* build_error_reply does not panic and returns 512 bytes.
C6_ToBytesNeverPanics ==
    (packet # << >> /\ pc \in { "encoded", "panicked", "done" }) =>
        /\ pc # "panicked"
        /\ out.ok
        /\ Len(out.val) = PacketLen

\* C7: to_bytes returns 512 bytes: the header's 12 bytes, the questions'
\* encodings in list order, the answers' encodings in list order, then
\* zeros.
C7_Layout ==
    pc \in { "encoded", "panicked", "done" } =>
        /\ out.ok
        /\ Len(out.val) = PacketLen
        /\ LET written == DnsHeaderToBytes(msg.val.header)
                              \o QuestionsBytes(msg.val.questions)
                              \o AnswersBytes(msg.val.answers)
           IN  /\ Len(DnsHeaderToBytes(msg.val.header)) = HeaderLen
               /\ Len(written) <= PacketLen
               /\ SubSeq(out.val, 1, Len(written)) = written
               /\ \A i \in (Len(written) + 1)..PacketLen : out.val[i] = 0

\* a name whose wire bytes are its labels, each of 1 to 63 ASCII bytes and
\* led by its length, then the terminator, 255 bytes at most in all
WellFormedName(name) ==
    /\ name.wire_format = LabelsWire(name.label_segments)
    /\ Len(name.wire_format) <= 255
    /\ \A i \in 1..Len(name.label_segments) :
          /\ Len(name.label_segments[i]) \in 1..63
          /\ \A j \in 1..Len(name.label_segments[i]) :
                name.label_segments[i][j] \in 0..127

\* a message whose header counts are the lengths of its lists, whose header
\* fields fit their bit widths, whose names are well-formed and whose
\* records carry the length of their payload
RoundTripDomain(m) ==
    /\ m.header.question_count = Len(m.questions)
    /\ m.header.answer_record_count = Len(m.answers)
    /\ m.header.packet_identifier \in 0..65535
    /\ m.header.operation_code \in 0..15
    /\ m.header.reserved \in 0..7
    /\ m.header.authority_record_count \in 0..65535
    /\ m.header.additional_record_count \in 0..65535
    /\ \A i \in 1..Len(m.questions) : WellFormedName(m.questions[i].domain_name)
    /\ \A i \in 1..Len(m.answers) :
          /\ WellFormedName(m.answers[i].domain_name)
          /\ m.answers[i].r_data_length = Len(m.answers[i].r_data)

\* C8: DnsMessage::new(&m.to_bytes()) = Ok(m) for every such message m
\* whose encoding fits in 512 bytes.
C8_RoundTrip ==
    (pc = "done" /\ RoundTripDomain(msg.val)) => back = Ok(msg.val)

\* ------------------------------------------------------------------------
\* Properties of the server loops
\* ------------------------------------------------------------------------
\* what receive -> decode -> build reply or error -> encode gives for the
\* 512 bytes of the receive buffer
ReplyFor(received_buf) ==
    LET decoded == DnsMessageNew(received_buf)
    IN  IF decoded.ok
        THEN DnsMessageToBytes(build_reply(decoded.val))
        ELSE DnsMessageToBytes(build_error_reply)

\* C9: back at recv_from after a datagram, the loop has sent one datagram
\* per datagram received, and the last one went to the sender of the last
\* datagram and is the encoding of build_reply of the decoded buffer, or of
\* build_error_reply when the buffer does not decode.
C9_RepliesToEachDatagram ==
    (s_pc = "recv" /\ received > 0) =>
        /\ Len(sent) = received
        /\ sent[Len(sent)].to = peer
        /\ Len(sent[Len(sent)].data) = PacketLen
        /\ Ok(sent[Len(sent)].data) = ReplyFor(buf)

\* C10: once a socket call has failed the loop has ended (run has returned
\* the error, main has left the loop or panicked), and no step after the
\* failure calls recv_from or send_to again.
C10_SocketErrorIsFatal ==
    /\ [](sock_err => s_pc \in { "returned", "panicked" })
    /\ [][sock_err => /\ sock_err'
                      /\ io_calls' = io_calls
                      /\ sent' = sent
                      /\ received' = received
                      /\ s_pc' = s_pc]_vars

\* run has returned after a send_to failed on the second datagram: one
\* reply was sent, two datagrams were received
C10_Witness ==
    /\ sock_err /\ entry = "run" /\ s_pc = "returned"
    /\ received = 2 /\ Len(sent) = 1 /\ io_calls = 4

\* ------------------------------------------------------------------------
\* Properties of DnsMessage::build_error_reply
\* ------------------------------------------------------------------------
\* C11: build_error_reply returns, whatever packet failed to decode, the
\* message with packet id 1234, QR = Reply, opcode 0, AA, TC, RD and RA
\* false, reserved 0, response code ServerFailure, the four section counts
\* 0 and no questions and no answers.
C11_ErrorReplyIsFixed ==
    origin = "build_error_reply" =>
        /\ msg.ok
        /\ msg.val.header.packet_identifier = 1234
        /\ msg.val.header.query_response_indicator = "Reply"
        /\ msg.val.header.operation_code = 0
        /\ msg.val.header.authoritative_answer = FALSE
        /\ msg.val.header.truncation = FALSE
        /\ msg.val.header.recursion_desired = FALSE
        /\ msg.val.header.recursion_available = FALSE
        /\ msg.val.header.reserved = 0
        /\ msg.val.header.response_code = "ServerFailure"
        /\ msg.val.header.question_count = 0
        /\ msg.val.header.answer_record_count = 0
        /\ msg.val.header.authority_record_count = 0
        /\ msg.val.header.additional_record_count = 0
        /\ msg.val.questions = << >>
        /\ msg.val.answers = << >>
        /\ DOMAIN msg.val = { "header", "questions", "answers" }
        /\ DOMAIN msg.val.header =
              { "packet_identifier", "query_response_indicator",
                "operation_code", "authoritative_answer", "truncation",
                "recursion_desired", "recursion_available", "reserved",
                "response_code", "question_count", "answer_record_count",
                "authority_record_count", "additional_record_count" }

\* the error reply built after a packet with id 0xffff, every flag set and
\* two declared questions failed to decode
C11_Witness ==
    /\ origin = "build_error_reply" /\ pc = "message"
    /\ At(packet, 0) = 255 /\ At(packet, 1) = 255 /\ At(packet, 2) = 255
    /\ U16FromBe(At(packet, 4), At(packet, 5)) = 2

\* ------------------------------------------------------------------------
\* The wire format of names, questions and records, as the claims state it
\* ------------------------------------------------------------------------
\* 0-based offset of the first byte after the name that starts at offset i:
\* labels, each a length byte L followed by L bytes, then a zero byte;
\* -1 when the buffer ends before a label is complete or before the zero
RECURSIVE WireNameEnd(_, _)
WireNameEnd(b, i) ==
    IF i >= Len(b) THEN -1
    ELSE IF At(b, i) = 0 THEN i + 1
    ELSE IF i + 1 + At(b, i) > Len(b) THEN -1
    ELSE WireNameEnd(b, i + 1 + At(b, i))
\* the labels of that name, each the bytes after its length byte
RECURSIVE WireLabels(_, _)
WireLabels(b, i) ==
    IF At(b, i) = 0 THEN << >>
    ELSE << Slice(b, i + 1, i + 1 + At(b, i)) >>
             \o WireLabels(b, i + 1 + At(b, i))
\* every byte of every label of that name is below 0x80
AsciiName(b) ==
    \A l \in 1..Len(WireLabels(b, 0)) :
        \A j \in 1..Len(WireLabels(b, 0)[l]) : WireLabels(b, 0)[l][j] < 128
\* offset of the first byte after the question at the start of b: a name,
\* a TYPE in 1..16 and a CLASS in 1..4; -1 when b starts with no question
WireQuestionEnd(b) ==
    LET n == WireNameEnd(b, 0)
    IN  IF n = -1 \/ n + 4 > Len(b) THEN -1
        ELSE IF U16FromBe(At(b, n), At(b, n + 1)) \notin 1..16 THEN -1
        ELSE IF U16FromBe(At(b, n + 2), At(b, n + 3)) \notin 1..4 THEN -1
        ELSE n + 4
\* offset of the first byte after the record at the start of b: a name, a
\* TYPE in 1..16, a CLASS in 1..4, a TTL, an RDLENGTH and RDLENGTH bytes;
\* -1 when b starts with no record
WireRecordEnd(b) ==
    LET n == WireNameEnd(b, 0)
    IN  IF n = -1 \/ n + 10 > Len(b) THEN -1
        ELSE IF U16FromBe(At(b, n), At(b, n + 1)) \notin 1..16 THEN -1
        ELSE IF U16FromBe(At(b, n + 2), At(b, n + 3)) \notin 1..4 THEN -1
        ELSE IF n + 10 + U16FromBe(At(b, n + 8), At(b, n + 9)) > Len(b) THEN -1
        ELSE n + 10 + U16FromBe(At(b, n + 8), At(b, n + 9))

\* ------------------------------------------------------------------------
\* Properties of DnsAnswerRecord
\* ------------------------------------------------------------------------
\* C12: for bytes that are exactly one record, DnsAnswerRecord::new is Ok
\* and to_bytes of its result is those bytes; for bytes that are exactly
\* one name, DomainName::new is Ok and its wire_format is those bytes.
C12_DecodeThenEncode ==
    /\ (e_pc = "answer" /\ WireRecordEnd(e_buf) = Len(e_buf)) => e_val.ok
    /\ (e_pc = "answer_bytes" /\ WireRecordEnd(e_buf) = Len(e_buf)) =>
          e_bytes = e_buf
    /\ (e_pc = "name" /\ WireNameEnd(e_buf, 0) = Len(e_buf)) =>
          e_val.ok /\ e_val.val.wire_format = e_buf

\* the bytes every field of the record at the start of b needs are in b:
\* a complete name, 2 bytes of TYPE, 2 of CLASS, 4 of TTL, 2 of RDLENGTH
\* and RDLENGTH bytes of RDATA
RecordBytesPresent(b) ==
    LET n == WireNameEnd(b, 0)
    IN  /\ n # -1
        /\ n + 10 <= Len(b)
        /\ n + 10 + U16FromBe(At(b, n + 8), At(b, n + 9)) <= Len(b)

\* C13: DnsAnswerRecord::new is Err when the name is cut short or has no
\* terminator, or when the buffer ends before the last byte of TYPE, CLASS,
\* TTL, RDLENGTH or the RDLENGTH bytes of RDATA; an Ok record's payload has
\* exactly the declared RDLENGTH bytes.
C13_MissingBytesAreErr ==
    e_pc = "answer" =>
        /\ ~RecordBytesPresent(e_buf) => ~e_val.ok
        /\ e_val.ok =>
              Len(e_val.val.r_data) =
                  U16FromBe(At(e_buf, WireNameEnd(e_buf, 0) + 8),
                            At(e_buf, WireNameEnd(e_buf, 0) + 9))

\* C14: on a buffer that starts with a record whose name takes name_len
\* bytes, DnsAnswerRecord::new is Ok with the name of those bytes, TYPE
\* from bytes name_len..name_len+2, CLASS from the next 2, TTL big-endian
\* from the next 4, RDLENGTH big-endian from the next 2 and, as RDATA, the
\* RDLENGTH bytes after that.
C14_FieldOffsets ==
    (e_pc = "answer" /\ WireRecordEnd(e_buf) # -1) =>
        LET name_len == WireNameEnd(e_buf, 0)
            rdlength == U16FromBe(At(e_buf, name_len + 8), At(e_buf, name_len + 9))
        IN  /\ e_val.ok
            /\ e_val.val.domain_name.wire_format = Slice(e_buf, 0, name_len)
            /\ RecordTypeAsU16(e_val.val.record_type)
                   = U16FromBe(At(e_buf, name_len), At(e_buf, name_len + 1))
            /\ ClassAsU16(e_val.val.class)
                   = U16FromBe(At(e_buf, name_len + 2), At(e_buf, name_len + 3))
            /\ e_val.val.time_to_live
                   = U32FromBe(At(e_buf, name_len + 4), At(e_buf, name_len + 5),
                               At(e_buf, name_len + 6), At(e_buf, name_len + 7))
            /\ e_val.val.r_data_length = rdlength
            /\ e_val.val.r_data
                   = Slice(e_buf, name_len + 10, name_len + 10 + rdlength)

\* C15: to_bytes of a record is its name's wire bytes, TYPE (2 bytes),
\* CLASS (2 bytes), TTL (4 bytes), the length of its payload (2 bytes) and
\* its payload, whatever its r_data_length field holds.
C15_RdlengthRecomputed ==
    e_pc \in { "record_bytes", "answer_bytes" } =>
        e_bytes = e_val.val.domain_name.wire_format
                      \o U16ToBe(RecordTypeAsU16(e_val.val.record_type))
                      \o U16ToBe(ClassAsU16(e_val.val.class))
                      \o U32ToBe(e_val.val.time_to_live)
                      \o U16ToBe(Len(e_val.val.r_data))
                      \o e_val.val.r_data

\* C16: every record of a message that DnsMessage::new decoded, and the
\* record that build_reply puts in its reply, has r_data_length equal to
\* the number of bytes of its r_data; for a decoded record that is also
\* the RDLENGTH at bytes name_len + 8 and name_len + 9 of the record.
C16_LengthIsPayloadLength ==
    (msg.ok /\ origin \in { "new", "build_reply", "build_error_reply" }) =>
        \A j \in 1..Len(msg.val.answers) :
            LET a == msg.val.answers[j]
                at == AnswerStart(msg.val, j) + Len(a.domain_name.wire_format) + 8
            IN  /\ a.r_data_length = Len(a.r_data)
                /\ origin = "new" =>
                      a.r_data_length = U16FromBe(At(packet, at), At(packet, at + 1))

\* a decoded message whose two records have a payload of 4 bytes and an
\* empty payload
C16_Witness ==
    /\ origin = "new" /\ msg.ok /\ Len(msg.val.answers) = 2
    /\ msg.val.answers[1].r_data_length = 4
    /\ Len(msg.val.answers[1].r_data) = 4
    /\ msg.val.answers[2].r_data_length = 0
    /\ msg.val.answers[2].r_data = << >>

\* ------------------------------------------------------------------------
\* Properties of DomainName::new and DnsQuestion::new
\* ------------------------------------------------------------------------
\* e_val is the result of one of the two DomainName::new on e_buf
NameDecoded == e_pc \in { "name", "question_rs_name" }

\* C17: on a buffer that starts with zero or more labels of ASCII bytes,
\* each led by its length, and a zero byte, DomainName::new is Ok; its
\* label_segments are those labels in wire order and its wire_format is
\* the buffer up to and including that zero byte, whatever follows it.
C17_WellFormedNameDecodes ==
    (NameDecoded /\ WireNameEnd(e_buf, 0) # -1 /\ AsciiName(e_buf)) =>
        /\ e_val.ok
        /\ e_val.val.label_segments = WireLabels(e_buf, 0)
        /\ e_val.val.wire_format = Slice(e_buf, 0, WireNameEnd(e_buf, 0))

\* C18: DomainName::new is Err on an empty buffer, on a buffer that ends
\* before the last byte of a label its length byte declares, and on a
\* buffer that ends before a zero length byte.
C18_IncompleteNameIsErr ==
    (NameDecoded /\ WireNameEnd(e_buf, 0) = -1) => ~e_val.ok

\* the bytes of a label, a Rust String whose chars are the code points
\* given: one byte for a code point below 0x80, two bytes above
RECURSIVE StringBytes(_)
StringBytes(label) ==
    IF label = << >> THEN << >>
    ELSE (IF Head(label) < 128
          THEN << Head(label) >>
          ELSE << 192 + (Head(label) \div 64), 128 + (Head(label) % 64) >>)
             \o StringBytes(Tail(label))
\* the length-prefixed encoding of labels: for each label its byte length
\* and its bytes, then one zero byte
RECURSIVE EncodeLabels(_)
EncodeLabels(labels) ==
    IF labels = << >> THEN << 0 >>
    ELSE << Len(StringBytes(Head(labels))) >> \o StringBytes(Head(labels))
             \o EncodeLabels(Tail(labels))

\* C19: the wire_format of every DomainName that a DomainName::new returns,
\* and of the name build_reply puts in its answer, is the length-prefixed
\* encoding of its label_segments ended by one zero byte.
C19_WireFormatEncodesLabels ==
    /\ (NameDecoded /\ e_val.ok) =>
          e_val.val.wire_format = EncodeLabels(e_val.val.label_segments)
    /\ SyntheticAnswer.domain_name.wire_format
           = EncodeLabels(SyntheticAnswer.domain_name.label_segments)

\* C20: DnsQuestion::new decodes the name, takes the RecordType from the two
\* bytes right after the name's terminating zero and the Class from the two
\* bytes after those; it returns Err when the name is malformed, when one of
\* the four bytes is missing, or when the type or the class is outside its
\* closed set.
C20_QuestionDecoding ==
    e_pc = "question" =>
        LET n == WireNameEnd(e_buf, 0)
        IN  IF WireQuestionEnd(e_buf) = -1
            THEN ~e_val.ok
            ELSE /\ e_val.ok
                 /\ e_val.val.record_type
                        = RecordTypeVariants[U16FromBe(At(e_buf, n), At(e_buf, n + 1))]
                 /\ e_val.val.class
                        = ClassVariants[U16FromBe(At(e_buf, n + 2), At(e_buf, n + 3))]

\* ------------------------------------------------------------------------
\* Properties of the header conversions
\* ------------------------------------------------------------------------
\* the response code a 4-bit value stands for
RcodeOf(n) ==
    IF n \in 0..5
    THEN << "NoError", "FormatError", "ServerFailure", "NameError",
            "NotImplemented", "Refused" >>[n + 1]
    ELSE "FormatError"

\* C21: DnsHeader::new is Err on a slice of fewer than 12 bytes; on any
\* other slice it is Ok with id from bytes 0-1, QR, opcode, AA, TC and RD
\* from bits 7, 6..3, 2, 1 and 0 of byte 2, RA, reserved and response code
\* from bits 7, 6..4 and 3..0 of byte 3, and the four counts big-endian
\* from offsets 4, 6, 8 and 10.
C21_HeaderDecoding ==
    v_pc = "parsed" =>
        IF Len(v_arg) < 12
        THEN ~v_ret.ok
        ELSE LET b == v_arg
                 h == v_ret.val
             IN  /\ v_ret.ok
                 /\ h.packet_identifier = b[1] * 256 + b[2]
                 /\ h.query_response_indicator
                        = (IF b[3] >= 128 THEN "Reply" ELSE "Question")
                 /\ h.operation_code = (b[3] % 128) \div 8
                 /\ h.authoritative_answer = ((b[3] % 8) \div 4 = 1)
                 /\ h.truncation = ((b[3] % 4) \div 2 = 1)
                 /\ h.recursion_desired = (b[3] % 2 = 1)
                 /\ h.recursion_available = (b[4] >= 128)
                 /\ h.reserved = (b[4] % 128) \div 16
                 /\ h.response_code = RcodeOf(b[4] % 16)
                 /\ h.question_count = b[5] * 256 + b[6]
                 /\ h.answer_record_count = b[7] * 256 + b[8]
                 /\ h.authority_record_count = b[9] * 256 + b[10]
                 /\ h.additional_record_count = b[11] * 256 + b[12]

\* a slice longer than 12 bytes decoded with QR set, opcode 0, RA set,
\* reserved 0 and the response code of the value 6
C21_Witness ==
    /\ v_pc = "parsed" /\ Len(v_arg) > 12 /\ v_ret.ok
    /\ v_arg[3] = 129 /\ v_arg[4] = 134
    /\ v_ret.val.query_response_indicator = "Reply"
    /\ v_ret.val.recursion_available
    /\ v_ret.val.response_code = "FormatError"

\* C22: to_bytes of the header decoded from 12 bytes gives those 12 bytes
\* when the low 4 bits of byte 3 are in 0..5; when they are in 6..15 it
\* gives the same bytes with those 4 bits replaced by 1.
C22_ParseThenSerialize ==
    (v_pc = "parsed_bytes" /\ Len(v_arg) = 12) =>
        IF v_arg[4] % 16 <= 5
        THEN v_enc = v_arg
        ELSE v_enc = [v_arg EXCEPT ![4] = (v_arg[4] \div 16) * 16 + 1]

\* a header with all flag bits set, reserved 7 and the low 4 bits 15
C22_Witness ==
    /\ v_pc = "parsed_bytes" /\ Len(v_arg) = 12
    /\ v_arg[3] = 255 /\ v_arg[4] = 255
    /\ v_enc[3] = 255 /\ v_enc[4] = 241

\* C23: for a DnsHeader whose operation_code is at most 15 and whose
\* reserved is at most 7, DnsHeader::from of its to_bytes is that header.
C23_SerializeThenParse ==
    (v_pc = "header_back" /\ v_arg.operation_code <= 15 /\ v_arg.reserved <= 7) =>
        (v_dec.ok /\ v_dec.val = v_arg)

\* a header with opcode 15, reserved 7, every flag set and Refused
C23_Witness ==
    /\ v_pc = "header_back"
    /\ v_arg.operation_code = 15 /\ v_arg.reserved = 7
    /\ v_arg.authoritative_answer /\ v_arg.truncation
    /\ v_arg.recursion_desired /\ v_arg.recursion_available
    /\ v_arg.response_code = "Refused" /\ v_arg.additional_record_count = 513
    /\ v_dec = Ok(v_arg)

\* C24: ResponseCode::from returns a code for every u8: NoError,
\* FormatError, ServerFailure, NameError, NotImplemented, Refused for 0, 1,
\* 2, 3, 4, 5 and FormatError for every other value.
C24_ResponseCodeIsTotal ==
    v_pc = "response_code" =>
        /\ v_ret.ok
        /\ v_ret.val = RcodeOf(v_arg)

\* a value above 15 decoded to FormatError
C24_Witness ==
    v_pc = "response_code" /\ v_arg = 200 /\ v_ret = Ok("FormatError")

\* ------------------------------------------------------------------------
\* Properties of RecordType and Class
\* ------------------------------------------------------------------------
\* C25: RecordType::try_from(v) is Ok exactly for 1 <= v <= 16 and
\* Class::try_from(v) exactly for 1 <= v <= 4; the variant returned, written
\* as its 16-bit wire value, is v again.
C25_ClosedSets ==
    /\ v_pc = "record_type" => (v_ret.ok <=> (1 <= v_arg /\ v_arg <= 16))
    /\ v_pc = "class" => (v_ret.ok <=> (1 <= v_arg /\ v_arg <= 4))
    /\ v_pc \in { "record_type_bytes", "class_bytes" } =>
          v_enc = << v_arg \div 256, v_arg % 256 >>

\* the last value of the RecordType set decoded and written back
C25_Witness ==
    /\ v_pc = "record_type_bytes" /\ v_arg = 16
    /\ v_ret = Ok("TXT") /\ v_enc = << 0, 16 >>

\* ------------------------------------------------------------------------
\* Properties of labels and of RData::new
\* ------------------------------------------------------------------------
\* C26: on a buffer that starts with a name, DomainName::new takes after
\* every length byte L in 1..255 exactly the next L bytes as one label,
\* whatever their values, and reads the byte after them as the next length
\* byte: it is Ok, its labels are those byte runs, each of L bytes, and its
\* wire_format ends with the terminator.
C26_LabelIsNextLBytes ==
    (e_pc = "name" /\ WireNameEnd(e_buf, 0) # -1) =>
        /\ e_val.ok
        /\ e_val.val.label_segments = WireLabels(e_buf, 0)
        /\ e_val.val.wire_format = Slice(e_buf, 0, WireNameEnd(e_buf, 0))

\* C27: RData::new(s) is Ok exactly when s has the 2 bytes of RDLENGTH and
\* at least RDLENGTH bytes after them, and then returns the bytes
\* s[2 .. 2 + RDLENGTH]; with RDLENGTH = 0 it returns the empty payload even
\* when s ends after the 2 bytes.
C27_RDataNew ==
    e_pc = "r_data" =>
        IF Len(e_buf) >= 2
              /\ Len(e_buf) >= 2 + U16FromBe(At(e_buf, 0), At(e_buf, 1))
        THEN /\ e_val.ok
             /\ e_val.val
                    = Slice(e_buf, 2, 2 + U16FromBe(At(e_buf, 0), At(e_buf, 1)))
        ELSE ~e_val.ok

\* ------------------------------------------------------------------------
\* Properties of the headers and replies the codec produces
\* ------------------------------------------------------------------------
\* msg was decoded from packet, or is a reply to such a message, or is the
\* error reply
FromDecoding ==
    /\ msg.ok
    /\ \/ origin \in { "new", "build_error_reply" }
       \/ origin = "build_reply" /\ packet # << >>

\* C28: the header of every message that was decoded, that is a reply to a
\* decoded message or that is the error reply has operation_code <= 15 and
\* reserved <= 7, and in its flag bytes bit 7 of the first byte is the QR
\* bit and bits 6..3 the opcode, bit 7 of the second byte is the RA bit
\* and bits 6..4 the reserved field.
C28_FieldsFitTheirBits ==
    FromDecoding =>
        LET h == msg.val.header
            flags == get_flags_bytes(h)
        IN  /\ h.operation_code <= 15
            /\ h.reserved <= 7
            /\ (flags[1] >= 128) = (h.query_response_indicator = "Reply")
            /\ (flags[1] % 128) \div 8 = h.operation_code
            /\ (flags[2] >= 128) = h.recursion_available
            /\ (flags[2] % 128) \div 16 = h.reserved

\* a message decoded with opcode 15 and reserved 7, every bit of its flag
\* bytes set but those of a response code above 5
C28_Witness ==
    /\ origin = "new" /\ msg.ok
    /\ msg.val.header.operation_code = 15 /\ msg.val.header.reserved = 7
    /\ get_flags_bytes(msg.val.header) = << 255, 241 >>

\* C29: the reply to a reply is that reply:
\* m.build_reply().build_reply() = m.build_reply().
C29_BuildReplyIsIdempotent ==
    (origin = "build_reply" /\ replies >= 2) => msg = inbound

\* the second reply to a decoded message that has a question, with the
\* opcode 0
C29_Witness ==
    /\ origin = "build_reply" /\ replies = 2 /\ packet # << >>
    /\ Len(msg.val.questions) >= 1
    /\ msg.val.header.operation_code = 0
    /\ msg.val.header.response_code = "NoError"
    /\ msg = inbound

====
